---------------------------- MODULE Spec2Model ----------------------------
(***************************************************************************)
(* A model of the export merger of services/slack (merge.go):             *)
(* MergeSlackExports and the pairwise reconciliation rules it folds over  *)
(* the collections of a SlackExport.                                       *)
(*                                                                         *)
(* Go values are modelled as follows.  A slice is a sequence (cloneSlice   *)
(* makes nil and empty slices alike before they are compared).  A Go map   *)
(* is a function over the set of its keys.  A (value, error) result is a   *)
(* record [err, val] with err = "nil" on success.  The iteration order of  *)
(* a Go map is unspecified: wherever the code ranges over a map, the model *)
(* takes every order.                                                      *)
(***************************************************************************)
EXTENDS Integers, Sequences, FiniteSets, TLC

VARIABLES
    slackExports,   \* the argument of MergeSlackExports: a sequence of snapshots
    idx,            \* the loop index i of MergeSlackExports
    result,         \* the snapshot under construction (result), or Nil
    err,            \* the error returned, "nil" when none
    pc,             \* position: "start", "loop", "done" in MergeSlackExports;
                    \* "call", "returned" around a reconciliation rule applied alone
    rule,           \* the reconciliation rule applied alone, "none" in a merge
    argA,           \* its first operand
    argB,           \* its second operand
    ruleOut,        \* what it returned, Nil before the call
    channelPosts,   \* TransformPosts: the raw posts of the channel, once sorted
    postIdx,        \* the position of its loop over channelPosts
    timestamps,     \* the creation timestamps taken in the channel
    threads,        \* the root posts by timestamp string, as pointers
    newPosts,       \* the posts handed to thread assembly: the post that
                    \* pointer n refers to was made from channelPosts[n]
    usersById,      \* the user index, t.Intermediate.UsersById
    resultPosts     \* the pointers appended to resultPosts

mergeVars == <<slackExports, idx, result, err, pc>>
ruleVars == <<rule, argA, argB, ruleOut>>
postVars == <<channelPosts, postIdx, timestamps, threads, newPosts, usersById, resultPosts>>
vars == <<slackExports, idx, result, err, pc, rule, argA, argB, ruleOut,
          channelPosts, postIdx, timestamps, threads, newPosts, usersById, resultPosts>>

Nil == [nil |-> TRUE]

Ok(v) == [err |-> "nil", val |-> v]

Fail(e) == [err |-> e, val |-> Nil]

-----------------------------------------------------------------------------
(* Strings.  The byte order of the strings that the code sorts.            *)

StringOrder ==
    <<"U1", "U2", "U3", "block_id", "blocks", "last_read", "subscribed", "text", "type">>

StringRank(s) == CHOOSE n \in 1..Len(StringOrder) : StringOrder[n] = s

StringLess(s, t) == StringRank(s) < StringRank(t)

RECURSIVE InsertSorted(_, _)
InsertSorted(x, s) ==
    IF s = <<>> THEN <<x>>
    ELSE IF StringLess(Head(s), x) \/ Head(s) = x
         THEN <<Head(s)>> \o InsertSorted(x, Tail(s))
         ELSE <<x>> \o s

\* sort.Strings: ascending, duplicates kept.
RECURSIVE sortStrings(_)
sortStrings(s) == IF s = <<>> THEN <<>> ELSE InsertSorted(Head(s), sortStrings(Tail(s)))

\* cloneSlice: a copy with the same elements in the same order.
cloneSlice(s) == [n \in 1..Len(s) |-> s[n]]

\* cloneMap: a copy with the same keys and values.
cloneMap(m) == [k \in DOMAIN m |-> m[k]]

Range(s) == {s[n] : n \in DOMAIN s}

\* Every order in which the values of a Go map can be ranged over.
MapOrders(m) ==
    {s \in [1..Cardinality(DOMAIN m) -> DOMAIN m] :
        \A p, q \in DOMAIN s : p # q => s[p] # s[q]}

-----------------------------------------------------------------------------
(* Channels.                                                               *)

mergeChannel(a, b) ==
    IF a.Id # b.Id THEN Fail("channel_ids")
    ELSE IF a.Name # b.Name THEN Fail("channel_names")
    ELSE IF a.Creator # b.Creator THEN Fail("channel_creators")
    ELSE IF sortStrings(cloneSlice(a.Members)) # sortStrings(cloneSlice(b.Members))
         THEN Fail("channel_members")
    ELSE IF a.Purpose # b.Purpose THEN Fail("channel_purposes")
    ELSE IF a.Topic # b.Topic THEN Fail("channel_topics")
    ELSE IF a.Type # b.Type THEN Fail("channel_types")
    ELSE Ok(a)

-----------------------------------------------------------------------------
(* Users.                                                                  *)

mergeUser_KeepEmptyEmail(a, b) ==
    IF a = b THEN Ok(a)
    ELSE LET b1 == IF b.Profile.Email = ""
                   THEN [b EXCEPT !.Profile.Email = a.Profile.Email] ELSE b
             a1 == IF a.Profile.Email = ""
                   THEN [a EXCEPT !.Profile.Email = b.Profile.Email] ELSE a
         IN  IF a1 = b1 THEN Ok(a) ELSE Fail("users_differ")

mergeUser_FillsFirstOnly(a, b) ==
    IF a = b THEN Ok(a)
    ELSE LET a1 == IF a.Profile.Email = ""
                   THEN [a EXCEPT !.Profile.Email = b.Profile.Email] ELSE a
         IN  IF a1 = b THEN Ok(a1) ELSE Fail("users_differ")

mergeUser(a, b) ==
    IF a = b THEN Ok(a)
    ELSE LET a1 == IF a.Profile.Email = ""
                   THEN [a EXCEPT !.Profile.Email = b.Profile.Email] ELSE a
             b1 == IF b.Profile.Email = ""
                   THEN [b EXCEPT !.Profile.Email = a1.Profile.Email] ELSE b
         IN  IF a1 = b1 THEN Ok(a1) ELSE Fail("users_differ")

-----------------------------------------------------------------------------
(* JSON.  A string is modelled by the JSON text it holds: a text that is   *)
(* not JSON (the empty string among them), or a JSON value whose objects   *)
(* list their members in the order written, duplicate keys included.       *)
(* encoding/json decodes an object into a map (the last duplicate wins),   *)
(* and encodes a map with its keys sorted.                                 *)

JInvalid(s) == [k |-> "invalid", s |-> s]

JNull == [k |-> "null"]

JString(s) == [k |-> "string", s |-> s]

JBool(b) == [k |-> "bool", b |-> b]

JArray(items) == [k |-> "array", items |-> items]

JObject(members) == [k |-> "object", members |-> members]

JMember(key, val) == [key |-> key, val |-> val]

EmptyString == JInvalid("")

GoNil == [g |-> "nil"]

GoString(s) == [g |-> "string", s |-> s]

GoBool(b) == [g |-> "bool", b |-> b]

GoSlice(items) == [g |-> "slice", items |-> items]

GoMap(m) == [g |-> "map", m |-> m]

\* The JSON value decoded into an interface{}.
RECURSIVE jsonDecode(_)
jsonDecode(t) ==
    CASE t.k = "null" -> GoNil
      [] t.k = "string" -> GoString(t.s)
      [] t.k = "bool" -> GoBool(t.b)
      [] t.k = "array" -> GoSlice([n \in 1..Len(t.items) |-> jsonDecode(t.items[n])])
      [] t.k = "object" ->
            LET keys == {t.members[n].key : n \in 1..Len(t.members)}
                last(key) == CHOOSE n \in 1..Len(t.members) :
                                /\ t.members[n].key = key
                                /\ \A p \in 1..Len(t.members) :
                                      t.members[p].key = key => p <= n
            IN  GoMap([key \in keys |-> jsonDecode(t.members[last(key)].val)])

\* json.Unmarshal into a nil map[string]interface{}: JSON null leaves the map
\* nil, an object fills it, anything else is an error.
jsonUnmarshal(t) ==
    CASE t.k = "invalid" -> Fail("json_syntax")
      [] t.k = "null" -> Ok(GoNil)
      [] t.k = "object" -> Ok(jsonDecode(t))
      [] OTHER -> Fail("json_type")

RECURSIVE sortedKeys(_)
sortedKeys(S) ==
    IF S = {} THEN <<>>
    ELSE LET least == CHOOSE x \in S : \A y \in S : x = y \/ StringLess(x, y)
         IN  <<least>> \o sortedKeys(S \ {least})

\* json.Marshal of a decoded value: map keys in sorted order.
RECURSIVE jsonMarshal(_)
jsonMarshal(v) ==
    CASE v.g = "nil" -> JNull
      [] v.g = "string" -> JString(v.s)
      [] v.g = "bool" -> JBool(v.b)
      [] v.g = "slice" -> JArray([n \in 1..Len(v.items) |-> jsonMarshal(v.items[n])])
      [] v.g = "map" ->
            LET keys == sortedKeys(DOMAIN v.m)
            IN  JObject([n \in 1..Len(keys) |-> JMember(keys[n], jsonMarshal(v.m[keys[n]]))])

\* delete(m, key); a no-op on a nil map and on an absent key.
delete(v, key) ==
    IF v.g = "map" THEN GoMap([x \in DOMAIN v.m \ {key} |-> v.m[x]]) ELSE v

\* The loop body of postOriginalEquivalent over one decoded document.
stripVolatile_KeepBlockId(m) ==
    delete(delete(m, "last_read"), "subscribed")

stripVolatile(m) ==
    LET stripBlocks(d) ==
            IF d.g = "map" /\ "blocks" \in DOMAIN d.m /\ d.m["blocks"].g = "slice"
            THEN GoMap([d.m EXCEPT !["blocks"] =
                     GoSlice([n \in 1..Len(@.items) |-> delete(@.items[n], "block_id")])])
            ELSE d
    IN  stripBlocks(delete(delete(m, "last_read"), "subscribed"))

postOriginalEquivalent(a, b) ==
    LET compare(m1, m2) ==
            IF m1.err # "nil" THEN Fail(m1.err)
            ELSE IF m2.err # "nil" THEN Fail(m2.err)
            ELSE Ok(jsonMarshal(stripVolatile(m1.val)) = jsonMarshal(stripVolatile(m2.val)))
    IN  compare(jsonUnmarshal(a), jsonUnmarshal(b))

-----------------------------------------------------------------------------
(* Posts.                                                                  *)

mergePost(a, b) ==
    LET aCopy == [a EXCEPT !.Original = EmptyString]
        bCopy == [b EXCEPT !.Original = EmptyString]
    IN  IF aCopy # bCopy THEN Fail("posts_unequal")
        ELSE LET decide(originalsAreEquivalent) ==
                     IF originalsAreEquivalent.err # "nil"
                     THEN Fail(originalsAreEquivalent.err)
                     ELSE IF ~originalsAreEquivalent.val THEN Fail("posts_original")
                     ELSE Ok(a)
             IN  decide(postOriginalEquivalent(a.Original, b.Original))

-----------------------------------------------------------------------------
(* Attachments (zip.File descriptors).                                     *)

sliceEquals(a, b) ==
    Len(a) = Len(b) /\ \A n \in 1..Len(a) : a[n] = b[n]

\* binary.LittleEndian.Uint16 of the two bytes of s from position n.
Uint16(s, n) == s[n] + 256 * s[n + 1]

RECURSIVE parseZipExtraFields_LeftoverDropped(_)
parseZipExtraFields_LeftoverDropped(extra) ==
    IF Len(extra) >= 4
    THEN LET field == Uint16(extra, 1)
             size == Uint16(extra, 3)
             parsed(rest) ==
                 IF rest.err # "nil" THEN rest
                 ELSE Ok(<<[field |-> field, data |-> SubSeq(extra, 5, size + 4)]>>
                            \o rest.val)
         IN  IF size > Len(extra) - 4 THEN Ok(<<>>)
             ELSE parsed(parseZipExtraFields_LeftoverDropped(SubSeq(extra, size + 5, Len(extra))))
    ELSE Ok(<<>>)

RECURSIVE parseZipExtraFields(_)
parseZipExtraFields(extra) ==
    IF Len(extra) >= 4
    THEN LET field == Uint16(extra, 1)
             size == Uint16(extra, 3)
         IN  IF size > Len(extra) - 4 THEN Fail("zip_extra_size")
             ELSE LET rest == parseZipExtraFields(SubSeq(extra, size + 5, Len(extra)))
                  IN  IF rest.err # "nil" THEN rest
                      ELSE Ok(<<[field |-> field, data |-> SubSeq(extra, 5, size + 4)]>>
                                 \o rest.val)
    ELSE IF Len(extra) # 0 THEN Fail("zip_extra_leftover")
    ELSE Ok(<<>>)

ExtendedTimestamp == 21589

zipExtraCanBeIgnored_FirstOnly(extraFields) ==
    extraFields = <<>> \/ extraFields[1].field = ExtendedTimestamp

zipExtraCanBeIgnored(extraFields) ==
    \A n \in 1..Len(extraFields) : extraFields[n].field = ExtendedTimestamp

mergeZipFile_UnknownCRC(a, b) ==
    IF a.NonUTF8 # b.NonUTF8 THEN Fail("zip_nonutf8")
    ELSE IF a.Name # b.Name THEN Fail("zip_names")
    ELSE IF a.CRC32 # b.CRC32 THEN Fail("zip_crc")
    ELSE IF a.UncompressedSize64 # b.UncompressedSize64 THEN Fail("zip_sizes")
    ELSE LET aExtraParsed == parseZipExtraFields(a.Extra)
             bExtraParsed == parseZipExtraFields(b.Extra)
         IN  IF ~sliceEquals(a.Extra, b.Extra) /\ aExtraParsed.err # "nil"
             THEN Fail(aExtraParsed.err)
             ELSE IF ~sliceEquals(a.Extra, b.Extra) /\ bExtraParsed.err # "nil"
             THEN Fail(bExtraParsed.err)
             ELSE IF /\ ~sliceEquals(a.Extra, b.Extra)
                     /\ (~zipExtraCanBeIgnored(aExtraParsed.val)
                           \/ ~zipExtraCanBeIgnored(bExtraParsed.val))
             THEN Fail("zip_extra")
             ELSE IF a.ExternalAttrs # b.ExternalAttrs THEN Fail("zip_attrs")
             ELSE Ok(a)

mergeZipFile(a, b) ==
    IF a.NonUTF8 # b.NonUTF8 THEN Fail("zip_nonutf8")
    ELSE IF a.Name # b.Name THEN Fail("zip_names")
    ELSE IF a.CRC32 = 0 \/ b.CRC32 = 0 THEN Fail("zip_crc_unknown")
    ELSE IF a.CRC32 # b.CRC32 THEN Fail("zip_crc")
    ELSE IF a.UncompressedSize64 # b.UncompressedSize64 THEN Fail("zip_sizes")
    ELSE LET aExtraParsed == parseZipExtraFields(a.Extra)
             bExtraParsed == parseZipExtraFields(b.Extra)
         IN  IF ~sliceEquals(a.Extra, b.Extra) /\ aExtraParsed.err # "nil"
             THEN Fail(aExtraParsed.err)
             ELSE IF ~sliceEquals(a.Extra, b.Extra) /\ bExtraParsed.err # "nil"
             THEN Fail(bExtraParsed.err)
             ELSE IF /\ ~sliceEquals(a.Extra, b.Extra)
                     /\ (~zipExtraCanBeIgnored(aExtraParsed.val)
                           \/ ~zipExtraCanBeIgnored(bExtraParsed.val))
             THEN Fail("zip_extra")
             ELSE IF a.ExternalAttrs # b.ExternalAttrs THEN Fail("zip_attrs")
             ELSE Ok(a)

-----------------------------------------------------------------------------
(* The generic identity-keyed merges.  The code hands them the id and the  *)
(* merge function of the entity kind; the model hands them the kind.  Both *)
(* return the set of results that the unspecified map iteration order      *)
(* allows.                                                                 *)

EmptyMap == [k \in {} |-> Nil]

Put(m, key, v) == [k \in DOMAIN m \cup {key} |-> IF k = key THEN v ELSE m[k]]

Failures(S) == {o \in S : o.err # "nil"}

\* The id functions handed to mergeSlicesWith.
idOf(kind, x) == IF kind = "post" THEN x.TimeStamp ELSE x.Id

\* The merge functions handed to mergeSlicesWith.
mergeOf(kind, a, b) ==
    CASE kind = "channel" -> mergeChannel(a, b)
      [] kind = "user" -> mergeUser(a, b)
      [] kind = "post" -> mergePost(a, b)

\* itemMap after the two source slices have been ranged over, or the first error.
itemMapOf(a, b, kind) ==
    LET items == a \o b
        fold[n \in 0..Len(items)] ==
            IF n = 0 THEN Ok(EmptyMap)
            ELSE LET prev == fold[n - 1]
                     item == items[n]
                     itemId == idOf(kind, item)
                     store(mergedItem) ==
                         IF mergedItem.err # "nil" THEN Fail(mergedItem.err)
                         ELSE Ok(Put(prev.val, itemId, mergedItem.val))
                 IN  IF prev.err # "nil" THEN prev
                     ELSE IF itemId \in DOMAIN prev.val
                     THEN store(mergeOf(kind, prev.val[itemId], item))
                     ELSE Ok(Put(prev.val, itemId, item))
    IN  fold[Len(items)]

mergeSlicesWith_SecondOnly(a, b, kind) ==
    LET ranged(itemMap) ==
            IF itemMap.err # "nil" THEN {Fail(itemMap.err)}
            ELSE {Ok(a \o [n \in DOMAIN o |-> itemMap.val[o[n]]]) :
                     o \in MapOrders(itemMap.val)}
    IN  ranged(itemMapOf(<<>>, b, kind))

mergeSlicesWith(a, b, kind) ==
    LET ranged(itemMap) ==
            IF itemMap.err # "nil" THEN {Fail(itemMap.err)}
            ELSE {Ok([n \in DOMAIN o |-> itemMap.val[o[n]]]) : o \in MapOrders(itemMap.val)}
    IN  ranged(itemMapOf(a, b, kind))

mergeChannels(a, b) == mergeSlicesWith(a, b, "channel")

mergeUsers(a, b) == mergeSlicesWith(a, b, "user")

mergePostSlice(a, b) == mergeSlicesWith(a, b, "post")

\* The merge functions handed to mergeMapsWith.
mergeValuesOf(kind, a, b) ==
    IF kind = "posts" THEN mergePostSlice(a, b) ELSE {mergeZipFile(a, b)}

mergeMapsWith(a, b, kind) ==
    LET ret == cloneMap(a)
        both == DOMAIN ret \cap DOMAIN b
        filled(merged) ==
            LET errors == UNION {Failures(merged[k]) : k \in both}
                choice(k) == IF k \in both THEN {o.val : o \in merged[k]}
                             ELSE IF k \in DOMAIN ret THEN {ret[k]}
                             ELSE {b[k]}
            IN  IF errors # {} THEN errors
                ELSE {Ok(m) : m \in {f \in [DOMAIN ret \cup DOMAIN b ->
                                              UNION {choice(k) : k \in DOMAIN ret \cup DOMAIN b}] :
                                          \A k \in DOMAIN f : f[k] \in choice(k)}}
    IN  filled([k \in both |-> mergeValuesOf(kind, ret[k], b[k])])

mergePosts(a, b) == mergeMapsWith(a, b, "posts")

mergeUploads(a, b) == mergeMapsWith(a, b, "uploads")

-----------------------------------------------------------------------------
(* MergeSlackExports.                                                      *)

\* &SlackExport{}: the zero value.
EmptyExport ==
    [TeamName |-> "", Channels |-> <<>>, PublicChannels |-> <<>>,
     PrivateChannels |-> <<>>, GroupChannels |-> <<>>, DirectChannels |-> <<>>,
     Users |-> <<>>, Posts |-> EmptyMap, Uploads |-> EmptyMap]

mergeExport_TeamLast(res, slackExport) ==
    LET merged(channels, public, private, group, direct, users, posts, uploads) ==
        IF Failures(channels) # {} THEN Failures(channels)
        ELSE IF Failures(public) # {} THEN Failures(public)
        ELSE IF Failures(private) # {} THEN Failures(private)
        ELSE IF Failures(group) # {} THEN Failures(group)
        ELSE IF Failures(direct) # {} THEN Failures(direct)
        ELSE IF Failures(users) # {} THEN Failures(users)
        ELSE IF Failures(posts) # {} THEN Failures(posts)
        ELSE IF Failures(uploads) # {} THEN Failures(uploads)
        ELSE IF res.TeamName # slackExport.TeamName THEN {Fail("team_names")}
        ELSE {Ok([TeamName |-> res.TeamName, Channels |-> c.val,
                  PublicChannels |-> pu.val, PrivateChannels |-> pr.val,
                  GroupChannels |-> g.val, DirectChannels |-> d.val,
                  Users |-> u.val, Posts |-> po.val, Uploads |-> up.val]) :
                 c \in channels, pu \in public, pr \in private, g \in group,
                 d \in direct, u \in users, po \in posts, up \in uploads}
    IN  merged(mergeChannels(res.Channels, slackExport.Channels),
               mergeChannels(res.PublicChannels, slackExport.PublicChannels),
               mergeChannels(res.PrivateChannels, slackExport.PrivateChannels),
               mergeChannels(res.GroupChannels, slackExport.GroupChannels),
               mergeChannels(res.DirectChannels, slackExport.DirectChannels),
               mergeUsers(res.Users, slackExport.Users),
               mergePosts(res.Posts, slackExport.Posts),
               mergeUploads(res.Uploads, slackExport.Uploads))

\* One pass of the loop body for i > 0: the results it can leave in result,
\* or the error it returns.
mergeExport(res, slackExport) ==
    IF res.TeamName # slackExport.TeamName THEN {Fail("team_names")}
    ELSE
    LET merged(channels, public, private, group, direct, users, posts, uploads) ==
        IF Failures(channels) # {} THEN Failures(channels)
        ELSE IF Failures(public) # {} THEN Failures(public)
        ELSE IF Failures(private) # {} THEN Failures(private)
        ELSE IF Failures(group) # {} THEN Failures(group)
        ELSE IF Failures(direct) # {} THEN Failures(direct)
        ELSE IF Failures(users) # {} THEN Failures(users)
        ELSE IF Failures(posts) # {} THEN Failures(posts)
        ELSE IF Failures(uploads) # {} THEN Failures(uploads)
        ELSE {Ok([TeamName |-> res.TeamName, Channels |-> c.val,
                  PublicChannels |-> pu.val, PrivateChannels |-> pr.val,
                  GroupChannels |-> g.val, DirectChannels |-> d.val,
                  Users |-> u.val, Posts |-> po.val, Uploads |-> up.val]) :
                 c \in channels, pu \in public, pr \in private, g \in group,
                 d \in direct, u \in users, po \in posts, up \in uploads}
    IN  merged(mergeChannels(res.Channels, slackExport.Channels),
               mergeChannels(res.PublicChannels, slackExport.PublicChannels),
               mergeChannels(res.PrivateChannels, slackExport.PrivateChannels),
               mergeChannels(res.GroupChannels, slackExport.GroupChannels),
               mergeChannels(res.DirectChannels, slackExport.DirectChannels),
               mergeUsers(res.Users, slackExport.Users),
               mergePosts(res.Posts, slackExport.Posts),
               mergeUploads(res.Uploads, slackExport.Uploads))

\* The loop of MergeSlackExports from the snapshot at position i on, as a
\* function: the results and errors it can return.
RECURSIVE mergeFrom(_, _, _)
mergeFrom(res, exports, i) ==
    IF i > Len(exports) THEN {Ok(res)}
    ELSE UNION {IF out.err # "nil" THEN {Fail(out.err)}
                ELSE mergeFrom(out.val, exports, i + 1) :
                    out \in mergeExport(res, exports[i])}

\* MergeSlackExports as a function: the results and errors it can return.
MergeSlackExports(exports) ==
    IF Len(exports) = 0 THEN {Fail("no_exports")}
    ELSE IF Len(exports) = 1 THEN {Ok(exports[1])}
    ELSE mergeFrom(exports[1], exports, 2)

MergeNone_EmptyResult ==
    /\ pc = "start"
    /\ Len(slackExports) = 0
    /\ result' = EmptyExport
    /\ pc' = "done"
    /\ UNCHANGED <<slackExports, idx, err, ruleVars, postVars>>

\* len(slackExports) == 0
MergeNone ==
    /\ pc = "start"
    /\ Len(slackExports) = 0
    /\ err' = "no_exports"
    /\ result' = Nil
    /\ pc' = "done"
    /\ UNCHANGED <<slackExports, idx, ruleVars, postVars>>

MergeOne_Reconciled ==
    /\ pc = "start"
    /\ Len(slackExports) = 1
    /\ \E out \in mergeExport(slackExports[1],
                              [EmptyExport EXCEPT !.TeamName = slackExports[1].TeamName]) :
          /\ err' = out.err
          /\ result' = out.val
    /\ pc' = "done"
    /\ UNCHANGED <<slackExports, idx, ruleVars, postVars>>

\* len(slackExports) == 1
MergeOne ==
    /\ pc = "start"
    /\ Len(slackExports) = 1
    /\ result' = slackExports[1]
    /\ pc' = "done"
    /\ UNCHANGED <<slackExports, idx, err, ruleVars, postVars>>

\* result := &SlackExport{}, and the loop is entered.
MergeBegin ==
    /\ pc = "start"
    /\ Len(slackExports) > 1
    /\ result' = EmptyExport
    /\ idx' = 0
    /\ pc' = "loop"
    /\ UNCHANGED <<slackExports, err, ruleVars, postVars>>

\* The loop body for i == 0.
MergeFirst ==
    /\ pc = "loop"
    /\ idx = 0
    /\ LET slackExport == slackExports[idx + 1]
       IN  result' = [TeamName |-> slackExport.TeamName,
                      Channels |-> cloneSlice(slackExport.Channels),
                      PublicChannels |-> cloneSlice(slackExport.PublicChannels),
                      PrivateChannels |-> cloneSlice(slackExport.PrivateChannels),
                      GroupChannels |-> cloneSlice(slackExport.GroupChannels),
                      DirectChannels |-> cloneSlice(slackExport.DirectChannels),
                      Users |-> cloneSlice(slackExport.Users),
                      Posts |-> cloneMap(slackExport.Posts),
                      Uploads |-> cloneMap(slackExport.Uploads)]
    /\ idx' = idx + 1
    /\ UNCHANGED <<slackExports, err, pc, ruleVars, postVars>>

\* The loop body for i > 0.
MergeNext ==
    /\ pc = "loop"
    /\ idx > 0
    /\ idx < Len(slackExports)
    /\ \E out \in mergeExport(result, slackExports[idx + 1]) :
          IF out.err # "nil"
          THEN /\ err' = out.err
               /\ result' = Nil
               /\ pc' = "done"
               /\ UNCHANGED idx
          ELSE /\ result' = out.val
               /\ idx' = idx + 1
               /\ UNCHANGED <<err, pc>>
    /\ UNCHANGED <<slackExports, ruleVars, postVars>>

\* return result, nil
MergeReturn ==
    /\ pc = "loop"
    /\ idx = Len(slackExports)
    /\ pc' = "done"
    /\ UNCHANGED <<slackExports, idx, result, err, ruleVars, postVars>>

-----------------------------------------------------------------------------
(* The snapshots that MergeSlackExports is run on.                         *)

Channel(id, name, creator, members, purpose, topic, type) ==
    [Id |-> id, Name |-> name, Creator |-> creator, Members |-> members,
     Purpose |-> [Value |-> purpose], Topic |-> [Value |-> topic], Type |-> type]

User(id, username, isBot, botId, firstName, email) ==
    [Id |-> id, Username |-> username, IsBot |-> isBot,
     Profile |-> [BotID |-> botId, FirstName |-> firstName, LastName |-> "",
                  Title |-> "", Email |-> email]]

Post(ts, threadTs, user, text, type, subType, original) ==
    [TimeStamp |-> ts, ThreadTS |-> threadTs, User |-> user, Text |-> text,
     Type |-> type, SubType |-> subType, Original |-> original]

ZipFile(name, nonUTF8, comment, crc32, size, extra, attrs) ==
    [Name |-> name, NonUTF8 |-> nonUTF8, Comment |-> comment, CRC32 |-> crc32,
     UncompressedSize64 |-> size, Extra |-> extra, ExternalAttrs |-> attrs]

Export(team, field, value) == [[EmptyExport EXCEPT !.TeamName = team] EXCEPT ![field] = value]

chGeneral == Channel("C1", "general", "U1", <<"U1", "U2">>, "talk", "news", "O")

chRandom == Channel("C2", "random", "U2", <<"U2">>, "", "", "O")

chDirect == Channel("D1", "", "U1", <<"U1", "U2">>, "", "", "D")

usAlice == User("U1", "alice", FALSE, "", "Alice", "alice@example.org")

usBob == User("U2", "bob", FALSE, "", "Bob", "")

OriginalOf(text, lastRead) ==
    JObject(<<JMember("text", JString(text)), JMember("last_read", JString(lastRead))>>)

poHello == Post("1.000100", "", "U1", "hello", "message", "", OriginalOf("hello", "1.0"))

poReply == Post("2.000200", "1.000100", "U2", "re", "message", "", OriginalOf("re", "2.0"))

zfPhoto == ZipFile("photo.png", FALSE, "", 7, 3, <<>>, 0)

PostsOf(posts) == [name \in {"general"} |-> posts]

UploadsOf(file) == [id \in {"F1"} |-> file]

\* The snapshots of team T1 that fill one collection, one that fills them all,
\* and two snapshots of another team.
ExportDomain ==
    {[EmptyExport EXCEPT !.TeamName = "T1"],
     [EmptyExport EXCEPT !.TeamName = "T2"],
     Export("T2", "Users", <<[usAlice EXCEPT !.Profile.FirstName = "Alicia"]>>),
     [TeamName |-> "T1", Channels |-> <<chGeneral, chRandom>>,
      PublicChannels |-> <<chGeneral, chRandom>>, PrivateChannels |-> <<>>,
      GroupChannels |-> <<>>, DirectChannels |-> <<chDirect>>,
      Users |-> <<usAlice, usBob>>,
      Posts |-> PostsOf(<<poHello, poReply>>), Uploads |-> UploadsOf(zfPhoto)]}
    \cup {Export("T1", "PublicChannels", v) :
            v \in {<<[chGeneral EXCEPT !.Members = <<"U2", "U1">>]>>,
                   <<[chGeneral EXCEPT !.Creator = "U2"]>>,
                   <<chGeneral, [chGeneral EXCEPT !.Topic.Value = "old news"]>>}}
    \cup {Export("T1", "DirectChannels", <<[chDirect EXCEPT !.Members = <<"U1">>]>>)}
    \cup {Export("T1", "Users", v) :
            v \in {<<[usAlice EXCEPT !.Profile.Email = ""]>>,
                   <<[usAlice EXCEPT !.Profile.FirstName = "Alicia"]>>,
                   <<[usAlice EXCEPT !.Profile.Email = "al@example.org"]>>,
                   <<usBob, usBob>>}}
    \cup {Export("T1", "Posts", PostsOf(v)) :
            v \in {<<[poHello EXCEPT !.Original = OriginalOf("hello", "9.0")]>>,
                   <<[poHello EXCEPT !.Text = "bye"]>>,
                   <<[poHello EXCEPT !.Original = EmptyString]>>,
                   <<poHello, [poHello EXCEPT !.Text = "bye"]>>}}
    \cup {Export("T1", "Uploads", UploadsOf(v)) :
            v \in {[zfPhoto EXCEPT !.Comment = "copy"],
                   [zfPhoto EXCEPT !.CRC32 = 0],
                   [zfPhoto EXCEPT !.UncompressedSize64 = 4],
                   [zfPhoto EXCEPT !.Extra = <<85, 84, 1, 0, 1>>],
                   [zfPhoto EXCEPT !.Extra = <<1, 0, 0, 0>>]}}

MaxExports == 3

ExportLists == UNION {[1..n -> ExportDomain] : n \in 0..MaxExports}

-----------------------------------------------------------------------------
(* The pairs of entities that a reconciliation rule is applied to alone:   *)
(* the first operand varies in what the rule reads asymmetrically, the     *)
(* second in every field.                                                  *)

MaxMembers == 3

MemberLists == UNION {[1..n -> {"U1", "U2"}] : n \in 0..MaxMembers}

ChannelsA == {[chGeneral EXCEPT !.Members = m] : m \in MemberLists}

ChannelsB ==
    {Channel(id, name, creator, m, purpose, topic, type) :
        id \in {"C1", "C2"}, name \in {"general", "random"}, creator \in {"U1", "U2"},
        m \in MemberLists, purpose \in {"talk", ""}, topic \in {"news", ""},
        type \in {"O", "P"}}

UsersAB ==
    {User(id, username, isBot, botId, firstName, email) :
        id \in {"U1", "U2"}, username \in {"alice", "bob"}, isBot \in BOOLEAN,
        botId \in {"", "B1"}, firstName \in {"Alice", "Alicia"},
        email \in {"", "alice@example.org", "al@example.org"}}

\* A blocks[] entry, with or without a block_id.
Blocks ==
    {JObject(<<JMember("block_id", JString("b1")), JMember("type", JString("rich"))>>),
     JObject(<<JMember("type", JString("rich")), JMember("block_id", JString("b2"))>>),
     JObject(<<JMember("block_id", JString("b1")), JMember("type", JString("plain"))>>),
     JString("b1")}

\* The members a raw-original capture is put together from.
OriginalMembers ==
    {JMember("text", JString(t)) : t \in {"hello", "bye"}}
    \cup {JMember("last_read", JString(t)) : t \in {"1.0", "2.0"}}
    \cup {JMember("subscribed", JBool(b)) : b \in BOOLEAN}
    \cup {JMember("blocks", JArray(<<b>>)) : b \in Blocks}
    \cup {JMember("blocks", JObject(<<JMember("block_id", JString("b1"))>>)),
          JMember("type", JObject(<<JMember("last_read", JString("1.0"))>>))}

MaxOriginalMembers == 2

NonObjects == {EmptyString, JInvalid("asd"), JNull, JArray(<<>>), JString("hello")}

Originals ==
    NonObjects
    \cup {JObject(m) : m \in UNION {[1..n -> OriginalMembers] : n \in 0..MaxOriginalMembers}}

\* The captures of the first post of a pair.
OriginalsA ==
    NonObjects
    \cup {JObject(<<>>),
          JObject(<<JMember("text", JString("hello"))>>),
          JObject(<<JMember("text", JString("hello")), JMember("last_read", JString("1.0"))>>),
          JObject(<<JMember("subscribed", JBool(TRUE)), JMember("text", JString("hello"))>>),
          JObject(<<JMember("text", JString("hello")),
                    JMember("blocks", JArray(<<JObject(<<JMember("block_id", JString("b1")),
                                                         JMember("type", JString("rich"))>>)>>))>>),
          JObject(<<JMember("blocks", JObject(<<JMember("block_id", JString("b1"))>>))>>),
          JObject(<<JMember("type", JObject(<<JMember("last_read", JString("1.0"))>>))>>)}

PostsA == {[poHello EXCEPT !.Original = o] : o \in OriginalsA}

PostsB == {[poHello EXCEPT !.Text = text, !.Original = o] : text \in {"hello", "bye"}, o \in Originals}

\* Extra field records: extended timestamps, a Zip64 record, and a header whose
\* length exceeds what follows it.
ExtraRecords == {<<85, 84, 1, 0, 1>>, <<85, 84, 1, 0, 2>>, <<1, 0, 0, 0>>, <<85, 84, 9, 0>>}

RECURSIVE Concat(_)
Concat(ss) == IF ss = <<>> THEN <<>> ELSE Head(ss) \o Concat(Tail(ss))

MaxExtraFields == 2

Extras ==
    {Concat(rs) \o tail :
        rs \in UNION {[1..n -> ExtraRecords] : n \in 0..MaxExtraFields},
        tail \in {<<>>, <<85>>}}

ZipFilesA == {[zfPhoto EXCEPT !.CRC32 = c, !.Extra = e] : c \in {0, 7}, e \in Extras}

\* The second descriptor differs from zfPhoto in at most one field besides Extra.
ZipFilesB ==
    {[z EXCEPT !.Extra = e] :
        z \in {zfPhoto, [zfPhoto EXCEPT !.NonUTF8 = TRUE], [zfPhoto EXCEPT !.Name = "pic.png"],
               [zfPhoto EXCEPT !.Comment = "copy"], [zfPhoto EXCEPT !.CRC32 = 0],
               [zfPhoto EXCEPT !.CRC32 = 8], [zfPhoto EXCEPT !.UncompressedSize64 = 4],
               [zfPhoto EXCEPT !.ExternalAttrs = 1]},
        e \in Extras}

ApplyMergeChannel ==
    /\ pc = "call"
    /\ rule = "mergeChannel"
    /\ ruleOut' = mergeChannel(argA, argB)
    /\ pc' = "returned"
    /\ UNCHANGED <<rule, argA, argB, slackExports, idx, result, err, postVars>>

ApplyMergeUser ==
    /\ pc = "call"
    /\ rule = "mergeUser"
    /\ ruleOut' = mergeUser(argA, argB)
    /\ pc' = "returned"
    /\ UNCHANGED <<rule, argA, argB, slackExports, idx, result, err, postVars>>

ApplyMergePost ==
    /\ pc = "call"
    /\ rule = "mergePost"
    /\ ruleOut' = mergePost(argA, argB)
    /\ pc' = "returned"
    /\ UNCHANGED <<rule, argA, argB, slackExports, idx, result, err, postVars>>

ApplyMergeZipFile ==
    /\ pc = "call"
    /\ rule = "mergeZipFile"
    /\ ruleOut' = mergeZipFile(argA, argB)
    /\ pc' = "returned"
    /\ UNCHANGED <<rule, argA, argB, slackExports, idx, result, err, postVars>>

-----------------------------------------------------------------------------
(* The specification: either MergeSlackExports is run on a list of         *)
(* snapshots, or one reconciliation rule is applied to one pair.           *)

Init ==
    /\ idx = 0
    /\ result = Nil
    /\ err = "nil"
    /\ ruleOut = Nil
    /\ channelPosts = <<>>
    /\ postIdx = 0
    /\ timestamps = {}
    /\ threads = EmptyMap
    /\ newPosts = <<>>
    /\ usersById = EmptyMap
    /\ resultPosts = <<>>
    /\ \/ /\ pc = "start"
          /\ slackExports \in ExportLists
          /\ rule = "none" /\ argA = Nil /\ argB = Nil
       \/ /\ pc = "call"
          /\ slackExports = <<>>
          /\ \/ rule = "mergeChannel" /\ argA \in ChannelsA /\ argB \in ChannelsB
             \/ rule = "mergeUser" /\ argA \in UsersAB /\ argB \in UsersAB
             \/ rule = "mergePost" /\ argA \in PostsA /\ argB \in PostsB
             \/ rule = "mergeZipFile" /\ argA \in ZipFilesA /\ argB \in ZipFilesB

Next ==
    \/ MergeNone \/ MergeOne \/ MergeBegin \/ MergeFirst \/ MergeNext \/ MergeReturn
    \/ ApplyMergeChannel \/ ApplyMergeUser \/ ApplyMergePost \/ ApplyMergeZipFile

Spec == Init /\ [][Next]_vars

-----------------------------------------------------------------------------
(* What the claims speak of.                                               *)

Merged == pc = "done" /\ err = "nil"

Returned(r) == pc = "returned" /\ rule = r

ChannelLists ==
    {"Channels", "PublicChannels", "PrivateChannels", "GroupChannels", "DirectChannels"}

DistinctIds(list) == \A p, q \in DOMAIN list : p # q => list[p].Id # list[q].Id

DistinctTimeStamps(list) ==
    \A p, q \in DOMAIN list : p # q => list[p].TimeStamp # list[q].TimeStamp

\* Every list of the snapshot holds at most one entity per identity key.
OnePerKey(s) ==
    /\ \A f \in ChannelLists : DistinctIds(s[f])
    /\ DistinctIds(s.Users)
    /\ \A name \in DOMAIN s.Posts : DistinctTimeStamps(s.Posts[name])

\* The same elements, in any order.
SameElements(l1, l2) == Len(l1) = Len(l2) /\ Range(l1) = Range(l2)

EqualUpToOrder(r, s) ==
    /\ r.TeamName = s.TeamName
    /\ \A f \in ChannelLists : SameElements(r[f], s[f])
    /\ SameElements(r.Users, s.Users)
    /\ DOMAIN r.Posts = DOMAIN s.Posts
    /\ \A name \in DOMAIN s.Posts : SameElements(r.Posts[name], s.Posts[name])
    /\ r.Uploads = s.Uploads

IdenticalCopies ==
    /\ pc = "done"
    /\ Len(slackExports) >= 2
    /\ \A n \in DOMAIN slackExports : slackExports[n] = slackExports[1]

\* Every capture is a JSON object or null, every checksum is known, and no list
\* holds two entities with one identity key.
Reconcilable(s) ==
    /\ OnePerKey(s)
    /\ \A name \in DOMAIN s.Posts : \A n \in DOMAIN s.Posts[name] :
          s.Posts[name][n].Original.k \in {"object", "null"}
    /\ \A id \in DOMAIN s.Uploads : s.Uploads[id].CRC32 # 0

C2_SingleExportUnchanged ==
    pc = "done" /\ Len(slackExports) = 1 => err = "nil" /\ result = slackExports[1]

C2_Witness ==
    /\ pc = "done"
    /\ Len(slackExports) = 1
    /\ ~OnePerKey(slackExports[1])
    /\ result = slackExports[1]

\* C3: a merge of zero snapshots fails with an error and returns no snapshot.
C3_NoExportsFails ==
    pc = "done" /\ Len(slackExports) = 0 => err = "no_exports" /\ result = Nil

C3_Witness == pc = "done" /\ slackExports = <<>> /\ err # "nil"

TeamsDiffer ==
    \E n \in DOMAIN slackExports : slackExports[n].TeamName # slackExports[1].TeamName

\* The first snapshot whose team name is not that of the first one.
FirstMismatch ==
    CHOOSE n \in DOMAIN slackExports :
        /\ slackExports[n].TeamName # slackExports[1].TeamName
        /\ \A m \in 1..(n - 1) : slackExports[m].TeamName = slackExports[1].TeamName

\* C4, as stated: when the team names are not all identical the merge fails
\* with the team-name mismatch error, wherever the mismatching snapshot is; an
\* entity conflict between other snapshots is never reported instead.
C4_TeamMismatchReportedFirst ==
    pc = "done" /\ TeamsDiffer => err = "team_names"

\* C4, amended: when the team names are not all identical the merge fails.  The
\* fold compares the team name of each snapshot before merging any entity of
\* that snapshot, so the failure is the team-name mismatch error exactly when
\* the fold reaches the first mismatching snapshot, and it is an entity
\* conflict only when one arises among the snapshots before it.
C4_TeamMismatchInFoldOrder ==
    pc = "done" /\ TeamsDiffer =>
        /\ err # "nil"
        /\ result = Nil
        /\ idx + 1 <= FirstMismatch
        /\ (err = "team_names" <=> idx + 1 = FirstMismatch)

C4_Witness ==
    /\ pc = "done"
    /\ TeamsDiffer
    /\ FirstMismatch = 3
    /\ slackExports[1].Users # <<>>
    /\ slackExports[2].Users # <<>>
    /\ slackExports[3].Users # <<>>
    /\ err = "team_names"

\* C5: after a successful merge of two or more snapshots every channel list,
\* the user list and every channel's post sequence holds at most one entity
\* per identity key, and two posts of one input with the same timestamp and
\* different texts make the merge fail.
C5_OneEntityPerKey ==
    pc = "done" /\ Len(slackExports) >= 2 =>
        /\ err = "nil" => OnePerKey(result)
        /\ (\E n \in DOMAIN slackExports : \E name \in DOMAIN slackExports[n].Posts :
               \E p, q \in DOMAIN slackExports[n].Posts[name] :
                  /\ slackExports[n].Posts[name][p].TimeStamp
                        = slackExports[n].Posts[name][q].TimeStamp
                  /\ slackExports[n].Posts[name][p].Text
                        # slackExports[n].Posts[name][q].Text)
              => err # "nil"

\* The two channels agree in name, creator, purpose, topic and visibility type.
SameChannelFields(a, b) ==
    /\ a.Name = b.Name
    /\ a.Creator = b.Creator
    /\ a.Purpose = b.Purpose
    /\ a.Topic = b.Topic
    /\ a.Type = b.Type

\* The two member lists name the same set of member ids.
SetEqual(l1, l2) == Range(l1) = Range(l2)

\* C6: two channels with the same id fail to reconcile whenever they differ in
\* name, creator, purpose, topic or visibility type, and reconcile into one of
\* them when all of these are equal and the member lists are set-equal.
C6_ChannelConflict ==
    Returned("mergeChannel") /\ argA.Id = argB.Id =>
        /\ ~SameChannelFields(argA, argB) => ruleOut.err # "nil"
        /\ SameChannelFields(argA, argB) /\ SetEqual(argA.Members, argB.Members)
              => ruleOut.err = "nil" /\ ruleOut.val \in {argA, argB}

\* C7: channel reconciliation compares member lists as sets: of two channels
\* that agree in everything else, the member lists are taken as equal iff they
\* hold the same member ids, whatever the order and the repetitions.
C7_MembersComparedAsSets ==
    Returned("mergeChannel") /\ argA.Id = argB.Id /\ SameChannelFields(argA, argB) =>
        (ruleOut.err = "nil" <=> SetEqual(argA.Members, argB.Members))

\* The two users differ in nothing but the email address.
SameButEmail(a, b) ==
    [a EXCEPT !.Profile.Email = ""] = [b EXCEPT !.Profile.Email = ""]

OneEmailEmpty(a, b) ==
    (a.Profile.Email = "" /\ b.Profile.Email # "") \/ (a.Profile.Email # "" /\ b.Profile.Email = "")

\* The users with the given id in the snapshots of the list.
InputUsers(id) ==
    {u \in UNION {Range(slackExports[n].Users) : n \in DOMAIN slackExports} : u.Id = id}

\* C8: two user records with the same id reconcile iff they are identical or
\* differ only in that exactly one of them has an empty email; the reconciled
\* user then carries the non-empty email, and any other difference fails.  In a
\* successful merge of snapshots, each user of the result is its input records
\* with the email of those that have one.
C8_UserReconciliation ==
    /\ Returned("mergeUser") =>
          /\ ruleOut.err = "nil" <=>
                argA = argB \/ (SameButEmail(argA, argB) /\ OneEmailEmpty(argA, argB))
          /\ ruleOut.err = "nil" =>
                /\ SameButEmail(ruleOut.val, argA)
                /\ ruleOut.val.Profile.Email \in {argA.Profile.Email, argB.Profile.Email}
                /\ argA.Profile.Email # "" \/ argB.Profile.Email # ""
                      => ruleOut.val.Profile.Email # ""
    /\ Merged /\ Len(slackExports) >= 2 =>
          /\ \A r \in Range(result.Users) : \A u \in InputUsers(r.Id) :
                /\ SameButEmail(r, u)
                /\ u.Profile.Email \in {"", r.Profile.Email}
          /\ \A n \in DOMAIN slackExports : \A u \in Range(slackExports[n].Users) :
                \E r \in Range(result.Users) : r.Id = u.Id

C8_Witness ==
    /\ Returned("mergeUser")
    /\ argA.Profile.Email = ""
    /\ argB.Profile.Email # ""
    /\ argA.IsBot
    /\ ruleOut.err = "nil"
    /\ ruleOut.val.Profile.Email = argB.Profile.Email

\* The members of a JSON object text whose key is none of the given keys.
WithoutKeys(members, keys) == SelectSeq(members, LAMBDA m : m.key \notin keys)

\* A raw-original capture with last_read, subscribed and the block_id of every
\* object in a blocks array removed; a capture that is no JSON object is as it is.
Stripped(t) ==
    IF t.k # "object" THEN t
    ELSE LET kept == WithoutKeys(t.members, {"last_read", "subscribed"})
             block(b) == IF b.k = "object" THEN JObject(WithoutKeys(b.members, {"block_id"}))
                         ELSE b
             blocks(v) == IF v.k = "array" THEN JArray([n \in 1..Len(v.items) |-> block(v.items[n])])
                          ELSE v
         IN  JObject([n \in 1..Len(kept) |->
                        IF kept[n].key = "blocks"
                        THEN JMember("blocks", blocks(kept[n].val)) ELSE kept[n]])

\* The value of a key in a JSON object text: that of its last occurrence.
ValueOf(t, key) ==
    LET at == {n \in 1..Len(t.members) : t.members[n].key = key}
    IN  t.members[CHOOSE n \in at : \A m \in at : m <= n].val

KeysOf(t) == {t.members[n].key : n \in 1..Len(t.members)}

\* Two texts are the same document: the same JSON value, whatever the order of
\* the keys of its objects; two texts that are not JSON, the same text.
RECURSIVE SameDocument(_, _)
SameDocument(x, y) ==
    /\ x.k = y.k
    /\ CASE x.k = "object" ->
                /\ KeysOf(x) = KeysOf(y)
                /\ \A key \in KeysOf(x) : SameDocument(ValueOf(x, key), ValueOf(y, key))
         [] x.k = "array" ->
                /\ Len(x.items) = Len(y.items)
                /\ \A n \in 1..Len(x.items) : SameDocument(x.items[n], y.items[n])
         [] OTHER -> x = y

SameButOriginal(a, b) == [a EXCEPT !.Original = JNull] = [b EXCEPT !.Original = JNull]

\* C9, as stated: two posts with the same timestamp merge iff every field
\* other than the raw-original capture is equal and the two captures are
\* identical after removing last_read, subscribed and every block_id inside
\* blocks[] entries.
C9_PostsMergeIffEquivalent ==
    Returned("mergePost") =>
        (ruleOut.err = "nil" <=>
            /\ SameButOriginal(argA, argB)
            /\ SameDocument(Stripped(argA.Original), Stripped(argB.Original)))

\* C9, amended: two posts with the same timestamp merge iff every field other
\* than the raw-original capture is equal, both captures parse as a JSON
\* object (or as null), and the two are the same document after removing the
\* top-level last_read and subscribed and the block_id of every object directly
\* in a top-level blocks array; captures that are empty, not JSON or another
\* kind of JSON value never merge, even when identical.  The merged post is
\* the first operand.
C9_PostsMergeIffParsedEquivalent ==
    Returned("mergePost") =>
        /\ ruleOut.err = "nil" <=>
              /\ SameButOriginal(argA, argB)
              /\ argA.Original.k \in {"object", "null"}
              /\ argB.Original.k \in {"object", "null"}
              /\ SameDocument(Stripped(argA.Original), Stripped(argB.Original))
        /\ ruleOut.err = "nil" => ruleOut.val = argA

C9_Witness ==
    /\ Returned("mergePost")
    /\ ruleOut.err = "nil"
    /\ argA.Original # argB.Original
    /\ "blocks" \in KeysOf(argA.Original)
    /\ "blocks" \in KeysOf(argB.Original)
    /\ ValueOf(argA.Original, "blocks") # ValueOf(argB.Original, "blocks")

\* The conditions under which two attachment descriptors may merge.
SameFile(a, b) ==
    /\ a.NonUTF8 = b.NonUTF8
    /\ a.Name = b.Name
    /\ a.CRC32 # 0
    /\ b.CRC32 # 0
    /\ a.CRC32 = b.CRC32
    /\ a.UncompressedSize64 = b.UncompressedSize64
    /\ a.ExternalAttrs = b.ExternalAttrs

\* The first snapshot of the list that holds an attachment under the id.
FirstWith(id) ==
    CHOOSE n \in DOMAIN slackExports :
        /\ id \in DOMAIN slackExports[n].Uploads
        /\ \A m \in 1..(n - 1) : id \notin DOMAIN slackExports[m].Uploads

\* C10: two attachment descriptors under the same attachment id merge only if
\* their non-UTF8 flags match, their names match, both checksums are non-zero
\* and equal, their sizes match and their external attribute bits match, and
\* the merged descriptor is the first operand; in a successful merge of
\* snapshots every descriptor under an id satisfies this with the one of the
\* first snapshot that has the id, which is the one the result holds.
C10_AttachmentReconciliation ==
    /\ Returned("mergeZipFile") /\ ruleOut.err = "nil" =>
          SameFile(argA, argB) /\ ruleOut.val = argA
    /\ Merged /\ Len(slackExports) >= 2 =>
          \A n \in DOMAIN slackExports : \A id \in DOMAIN slackExports[n].Uploads :
             /\ id \in DOMAIN result.Uploads
             /\ result.Uploads[id] = slackExports[FirstWith(id)].Uploads[id]
             /\ n # FirstWith(id) => SameFile(result.Uploads[id], slackExports[n].Uploads[id])

C10_Witness ==
    /\ Merged
    /\ Len(slackExports) = 3
    /\ "F1" \in DOMAIN slackExports[2].Uploads
    /\ "F1" \in DOMAIN slackExports[3].Uploads
    /\ slackExports[2].Uploads["F1"] # slackExports[3].Uploads["F1"]
    /\ result.Uploads["F1"] = slackExports[2].Uploads["F1"]

\* The extensible-metadata blob is a sequence of whole records: a 2-byte id, a
\* 2-byte little-endian length and a payload of that length, nothing left over.
RECURSIVE WellFormed(_)
WellFormed(blob) ==
    \/ blob = <<>>
    \/ /\ Len(blob) >= 4
       /\ blob[3] + 256 * blob[4] <= Len(blob) - 4
       /\ WellFormed(SubSeq(blob, blob[3] + 256 * blob[4] + 5, Len(blob)))

\* The field ids of the records of a well-formed blob.
RECURSIVE FieldIds(_)
FieldIds(blob) ==
    IF blob = <<>> THEN {}
    ELSE {blob[1] + 256 * blob[2]}
            \cup FieldIds(SubSeq(blob, blob[3] + 256 * blob[4] + 5, Len(blob)))

Ignorable(blob) == WellFormed(blob) /\ FieldIds(blob) \subseteq {ExtendedTimestamp}

\* C11: when the extensible-metadata blobs of two otherwise-equivalent
\* attachment descriptors differ byte-wise, the descriptors merge iff both
\* blobs parse into records and every record of both blobs has the timestamp
\* extension id; one record with another id in either blob makes them
\* non-mergeable.
C11_DifferingExtraMergeIffIgnorable ==
    Returned("mergeZipFile") /\ SameFile(argA, argB) /\ argA.Extra # argB.Extra =>
        /\ ruleOut.err = "nil" <=> Ignorable(argA.Extra) /\ Ignorable(argB.Extra)
        /\ /\ WellFormed(argA.Extra)
           /\ WellFormed(argB.Extra)
           /\ ~(Ignorable(argA.Extra) /\ Ignorable(argB.Extra))
           => ruleOut.err = "zip_extra"

C11_Witness ==
    /\ Returned("mergeZipFile")
    /\ SameFile(argA, argB)
    /\ argA.Extra # argB.Extra
    /\ Len(argA.Extra) = 10
    /\ Len(argB.Extra) = 10
    /\ ruleOut.err = "nil"

\* C12, as stated: a malformed extensible-metadata blob on either descriptor
\* makes the merge fail, whether or not the two blobs are byte-identical.
C12_MalformedExtraAlwaysFatal ==
    Returned("mergeZipFile") /\ (~WellFormed(argA.Extra) \/ ~WellFormed(argB.Extra)) =>
        ruleOut.err # "nil"

\* C12, amended: a malformed extensible-metadata blob on either descriptor
\* makes the merge fail when the two blobs differ byte-wise, and the failure of
\* two otherwise-equivalent descriptors is then the parse error of the first
\* malformed blob (length beyond the remaining bytes, or bytes left over);
\* byte-identical blobs are never parsed, so two otherwise-equivalent
\* descriptors with the same malformed blob merge.
C12_MalformedExtraFatalWhenDiffering ==
    Returned("mergeZipFile") /\ (~WellFormed(argA.Extra) \/ ~WellFormed(argB.Extra)) =>
        /\ argA.Extra # argB.Extra => ruleOut.err # "nil"
        /\ argA.Extra # argB.Extra /\ SameFile(argA, argB) =>
              ruleOut.err \in {"zip_extra_size", "zip_extra_leftover"}
        /\ argA.Extra = argB.Extra /\ SameFile(argA, argB) =>
              ruleOut.err = "nil" /\ ruleOut.val = argA

C12_Witness ==
    /\ Returned("mergeZipFile")
    /\ SameFile(argA, argB)
    /\ WellFormed(argA.Extra)
    /\ argA.Extra # <<>>
    /\ ~WellFormed(argB.Extra)
    /\ ruleOut.err = "zip_extra_leftover"

-----------------------------------------------------------------------------
(* Timestamps.  A timestamp string is the sequence of its characters.  The  *)
(* two conversions are called by the post transform (intermediate.go) and   *)
(* exercised by export_test.go; they parse the string as decimal seconds    *)
(* and scale it, rounding half up, and return 1 when it does not parse.     *)

Digits == <<"0", "1", "2", "3", "4", "5", "6", "7", "8", "9">>

IsDigit(c) == \E n \in 1..Len(Digits) : Digits[n] = c

DigitValue(c) == (CHOOSE n \in 1..Len(Digits) : Digits[n] = c) - 1

\* The number a sequence of digits writes; 0 for none.
RECURSIVE Number(_)
Number(ds) ==
    IF ds = <<>> THEN 0
    ELSE 10 * Number(SubSeq(ds, 1, Len(ds) - 1)) + DigitValue(ds[Len(ds)])

\* The integer and fractional digits of decimal seconds, or no parse.
parseSeconds(ts) ==
    LET dots == {n \in 1..Len(ts) : ts[n] = "."}
        split(dot) ==
            LET whole == IF dot = 0 THEN ts ELSE SubSeq(ts, 1, dot - 1)
                fraction == IF dot = 0 THEN <<>> ELSE SubSeq(ts, dot + 1, Len(ts))
            IN  IF /\ whole # <<>>
                   /\ \A n \in 1..Len(whole) : IsDigit(whole[n])
                   /\ \A n \in 1..Len(fraction) : IsDigit(fraction[n])
                THEN [ok |-> TRUE, whole |-> whole, fraction |-> fraction]
                ELSE [ok |-> FALSE, whole |-> <<>>, fraction |-> <<>>]
    IN  split(IF dots = {} THEN 0 ELSE CHOOSE n \in dots : \A m \in dots : n <= m)

\* The fraction scaled to the given number of places, rounded half up.
scaledFraction(fraction, places) ==
    LET kept == [n \in 1..places |-> IF n <= Len(fraction) THEN fraction[n] ELSE "0"]
    IN  Number(kept)
          + (IF Len(fraction) > places /\ DigitValue(fraction[places + 1]) >= 5 THEN 1 ELSE 0)

SlackConvertTimeStamp_Truncated(ts) ==
    LET scaled(seconds) ==
            IF ~seconds.ok THEN 1
            ELSE Number(seconds.whole) * 1000
                    + Number([n \in 1..3 |-> IF n <= Len(seconds.fraction)
                                             THEN seconds.fraction[n] ELSE "0"])
    IN  scaled(parseSeconds(ts))

\* SlackConvertTimeStamp: milliseconds.
SlackConvertTimeStamp(ts) ==
    LET scaled(seconds) ==
            IF ~seconds.ok THEN 1
            ELSE Number(seconds.whole) * 1000 + scaledFraction(seconds.fraction, 3)
    IN  scaled(parseSeconds(ts))

SlackConvertTimeStampToMicroSeconds_ViaMilliseconds(ts) ==
    LET scaled(seconds) ==
            IF ~seconds.ok THEN 1
            ELSE (Number(seconds.whole) * 1000 + scaledFraction(seconds.fraction, 3)) * 1000
    IN  scaled(parseSeconds(ts))

\* SlackConvertTimeStampToMicroSeconds: microseconds.
SlackConvertTimeStampToMicroSeconds(ts) ==
    LET scaled(seconds) ==
            IF ~seconds.ok THEN 1
            ELSE Number(seconds.whole) * 1000000 + scaledFraction(seconds.fraction, 6)
    IN  scaled(parseSeconds(ts))

\* The timestamp strings the conversions are applied to: whole seconds with
\* no, an empty or a written fraction, and strings that are no decimal number.
WholeSeconds == {<<"0">>, <<"1">>, <<"1", "9">>, <<"9", "9">>}

FractionDigits == {"0", "4", "5", "9"}

MaxFractionDigits == 6

Fractions == UNION {[1..n -> FractionDigits] : n \in 0..MaxFractionDigits}

NoTimeStamps ==
    {<<>>, <<"a", "s", "d">>, <<"1", "a">>, <<"1", ".", "4", "a">>, <<"1", ".", "4", ".", "5">>}

TimeStamps ==
    WholeSeconds \cup {w \o <<".">> \o f : w \in WholeSeconds, f \in Fractions}
        \cup NoTimeStamps

ApplySlackConvertTimeStamp ==
    /\ pc = "call"
    /\ rule = "SlackConvertTimeStamp"
    /\ ruleOut' = SlackConvertTimeStamp(argA)
    /\ pc' = "returned"
    /\ UNCHANGED <<rule, argA, argB, slackExports, idx, result, err, postVars>>

ApplySlackConvertTimeStampToMicroSeconds ==
    /\ pc = "call"
    /\ rule = "SlackConvertTimeStampToMicroSeconds"
    /\ ruleOut' = SlackConvertTimeStampToMicroSeconds(argA)
    /\ pc' = "returned"
    /\ UNCHANGED <<rule, argA, argB, slackExports, idx, result, err, postVars>>

-----------------------------------------------------------------------------
(* Text.  The transform takes names apart, so a name, an id or a text is   *)
(* the sequence of its characters here.                                    *)

LowerCase == 
    <<"a", "b", "c", "d", "e", "f", "g", "h", "i", "j", "k", "l", "m">>
        \o <<"n", "o", "p", "q", "r", "s", "t", "u", "v", "w", "x", "y", "z">>

UpperCase == 
    <<"A", "B", "C", "D", "E", "F", "G", "H", "I", "J", "K", "L", "M">>
        \o <<"N", "O", "P", "Q", "R", "S", "T", "U", "V", "W", "X", "Y", "Z">>

\* The characters in byte order, as sort.Strings and strings.ToLower see them.
ByteOrder == <<" ", "!", "-">> \o Digits \o <<"@">> \o UpperCase \o <<"_">> \o LowerCase

ByteRank(c) == CHOOSE n \in 1..Len(ByteOrder) : ByteOrder[n] = c

\* strings.ToLower
ToLower(s) ==
    [n \in 1..Len(s) |->
        IF \E k \in 1..Len(UpperCase) : UpperCase[k] = s[n]
        THEN LowerCase[CHOOSE k \in 1..Len(UpperCase) : UpperCase[k] = s[n]]
        ELSE s[n]]

\* strings.Trim(s, cutset)
Trim(s, cutset) ==
    LET kept == {n \in 1..Len(s) : s[n] \notin cutset}
        from(first) == SubSeq(s, first, CHOOSE n \in kept : \A m \in kept : m <= n)
    IN  IF kept = {} THEN <<>>
        ELSE from(CHOOSE n \in kept : \A m \in kept : n <= m)

\* strings.Join(elems, sep)
RECURSIVE Join(_, _)
Join(elems, sep) ==
    IF elems = <<>> THEN <<>>
    ELSE IF Len(elems) = 1 THEN elems[1]
    ELSE elems[1] \o sep \o Join(Tail(elems), sep)

\* s < t for Go strings.
RECURSIVE ByteLess(_, _)
ByteLess(s, t) ==
    IF t = <<>> THEN FALSE
    ELSE IF s = <<>> THEN TRUE
    ELSE IF s[1] # t[1] THEN ByteRank(s[1]) < ByteRank(t[1])
    ELSE ByteLess(Tail(s), Tail(t))

RECURSIVE InsertByByte(_, _)
InsertByByte(x, s) ==
    IF s = <<>> THEN <<x>>
    ELSE IF ByteLess(x, Head(s)) THEN <<x>> \o s
    ELSE <<Head(s)>> \o InsertByByte(x, Tail(s))

\* sort.Strings on texts.
RECURSIVE sortTexts(_)
sortTexts(s) == IF s = <<>> THEN <<>> ELSE InsertByByte(Head(s), sortTexts(Tail(s)))

\* truncateRunes: the first n characters.
truncateRunes(s, n) == IF Len(s) > n THEN SubSeq(s, 1, n) ELSE s

\* isValidChannelNameCharacters: no character other than a letter, a digit, a
\* dash or an underscore.
isValidChannelNameCharacters(name) ==
    \A n \in 1..Len(name) :
        \/ IsDigit(name[n])
        \/ name[n] \in {"-", "_"}
        \/ \E k \in 1..Len(LowerCase) : name[n] \in {LowerCase[k], UpperCase[k]}

-----------------------------------------------------------------------------
(* Channel transform.  The limits are those of the platform's model        *)
(* package; the channel types are its "O", "P", "D" and "G".               *)

ChannelNameMaxLength == 64

ChannelDisplayNameMaxRunes == 64

ChannelPurposeMaxRunes == 250

ChannelHeaderMaxRunes == 1024

ChannelGroupMaxUsers == 8

SlackChannelPrefix == <<"s", "l", "a", "c", "k", "-", "c", "h", "a", "n", "n", "e", "l", "-">>

\* The zero IntermediateChannel.
EmptyIntermediateChannel ==
    [Id |-> <<>>, OriginalName |-> <<>>, Name |-> <<>>, DisplayName |-> <<>>,
     Members |-> <<>>, MembersUsernames |-> <<>>, Purpose |-> <<>>, Header |-> <<>>,
     Topic |-> <<>>, Type |-> ""]

\* IntermediateChannel.Sanitise
Sanitise(c) ==
    LET trimmed == Trim(c.Name, {"_", "-"})
        cut == IF Len(trimmed) > ChannelNameMaxLength
               THEN SubSeq(trimmed, 1, ChannelNameMaxLength) ELSE trimmed
        prefixed == IF Len(cut) = 1 THEN SlackChannelPrefix \o cut ELSE cut
        name == IF ~isValidChannelNameCharacters(prefixed) THEN ToLower(c.Id) ELSE prefixed
        shown == truncateRunes(Trim(c.DisplayName, {"_", "-"}), ChannelDisplayNameMaxRunes)
        displayName == IF Len(shown) = 1 THEN SlackChannelPrefix \o shown ELSE shown
    IN  IF c.Type = "D" THEN c
        ELSE [c EXCEPT !.Name = name,
                       !.DisplayName = displayName,
                       !.Purpose = truncateRunes(c.Purpose, ChannelPurposeMaxRunes),
                       !.Header = truncateRunes(c.Header, ChannelHeaderMaxRunes)]

overrideOrClear_KeepDash(value, current) == IF value = <<>> THEN current ELSE value

\* An override field that a single dash empties.
overrideOrClear(value, current) ==
    IF value = <<>> THEN current ELSE IF value = <<"-">> THEN <<>> ELSE value

\* An override field that is copied as it is.
overrideOnly(value, current) == IF value = <<>> THEN current ELSE value

\* ApplyChannelOverrides: the channel afterwards, and whether a warning was logged.
ApplyChannelOverrides(t, channel) ==
    IF DOMAIN t.ChannelOverrides = {} THEN [target |-> channel, warned |-> FALSE]
    ELSE IF channel.Name \in DOMAIN t.ChannelOverrides
    THEN LET overridden(overrideChannel) ==
                 [channel EXCEPT
                     !.Name = overrideOrClear(overrideChannel.Name, @),
                     !.DisplayName = overrideOrClear(overrideChannel.DisplayName, @),
                     !.Purpose = overrideOrClear(overrideChannel.Purpose, @),
                     !.Header = overrideOrClear(overrideChannel.Header, @),
                     !.Topic = overrideOrClear(overrideChannel.Topic, @)]
         IN  [target |-> overridden(t.ChannelOverrides[channel.Name]), warned |-> FALSE]
    ELSE [target |-> channel, warned |-> TRUE]

ApplyUserOverrides_WarnsOnEmptyTable(t, user) ==
    IF user.Username \in DOMAIN t.UserOverrides
    THEN LET overridden(overrideUser) ==
                 [user EXCEPT
                     !.Username = overrideOnly(overrideUser.Username, @),
                     !.FirstName = overrideOrClear(overrideUser.FirstName, @),
                     !.LastName = overrideOrClear(overrideUser.LastName, @),
                     !.Position = overrideOrClear(overrideUser.Position, @),
                     !.Email = overrideOnly(overrideUser.Email, @),
                     !.Password = overrideOnly(overrideUser.Password, @)]
         IN  [target |-> overridden(t.UserOverrides[user.Username]), warned |-> FALSE]
    ELSE [target |-> user, warned |-> TRUE]

\* ApplyUserOverrides: the user afterwards, and whether a warning was logged.
ApplyUserOverrides(t, user) ==
    IF DOMAIN t.UserOverrides = {} THEN [target |-> user, warned |-> FALSE]
    ELSE IF user.Username \in DOMAIN t.UserOverrides
    THEN LET overridden(overrideUser) ==
                 [user EXCEPT
                     !.Username = overrideOnly(overrideUser.Username, @),
                     !.FirstName = overrideOrClear(overrideUser.FirstName, @),
                     !.LastName = overrideOrClear(overrideUser.LastName, @),
                     !.Position = overrideOrClear(overrideUser.Position, @),
                     !.Email = overrideOnly(overrideUser.Email, @),
                     !.Password = overrideOnly(overrideUser.Password, @)]
         IN  [target |-> overridden(t.UserOverrides[user.Username]), warned |-> FALSE]
    ELSE [target |-> user, warned |-> TRUE]

\* filterValidMembers
filterValidMembers(members, users) ==
    SelectSeq(members, LAMBDA member : member \in DOMAIN users)

\* getOriginalName
getOriginalName(channel) == IF channel.Name = <<>> THEN channel.Id ELSE channel.Name

demoteLargeGroup_TypeOnly(channel, validMembers) ==
    IF channel.Type = "G" /\ Len(validMembers) > ChannelGroupMaxUsers
    THEN [channel EXCEPT !.Type = "P"]
    ELSE channel

\* The demotion of a group channel with more valid members than a group may have.
demoteLargeGroup(channel, validMembers) ==
    IF channel.Type = "G" /\ Len(validMembers) > ChannelGroupMaxUsers
    THEN [channel EXCEPT !.Name = channel.Purpose.Value, !.Type = "P"]
    ELSE channel

\* The name given to a direct or group channel in a team-internal import.
internalName(t, channel, validMembers) ==
    ToLower(channel.Id) \o <<"-">>
        \o (IF channel.Type = "D" THEN <<"d", "i", "r", "e", "c", "t", "-">> ELSE <<"g", "r", "o", "u", "p", "-">>)
        \o Join(sortTexts([n \in 1..Len(validMembers) |->
                              t.UsersById[validMembers[n]].Username]), <<"-">>)

transformChannel_OverridesByEnteringType(t, rawChannel, teamInternalOnly) ==
    LET validMembers == filterValidMembers(rawChannel.Members, t.UsersById)
        built(channel) ==
            LET named == IF teamInternalOnly /\ channel.Type \in {"D", "G"}
                         THEN internalName(t, channel, validMembers)
                         ELSE Trim(channel.Name, {"_", "-"})
                prefixed == IF Len(named) = 1 THEN SlackChannelPrefix \o named ELSE named
                name == IF ~isValidChannelNameCharacters(prefixed)
                        THEN ToLower(channel.Id) ELSE prefixed
                newChannel ==
                    [EmptyIntermediateChannel EXCEPT
                        !.OriginalName = getOriginalName(channel),
                        !.Name = name,
                        !.DisplayName = name,
                        !.Members = validMembers,
                        !.Purpose = channel.Purpose.Value,
                        !.Header = channel.Topic.Value,
                        !.Type = IF teamInternalOnly /\ channel.Type \in {"D", "G"}
                                 THEN "P" ELSE channel.Type]
            IN  IF channel.Type \in {"O", "P"}
                THEN Sanitise(ApplyChannelOverrides(t, newChannel).target)
                ELSE Sanitise(newChannel)
    IN  IF rawChannel.Type \in {"D", "G"} /\ Len(validMembers) <= 1 THEN <<>>
        ELSE <<built(demoteLargeGroup(rawChannel, validMembers))>>

\* The body of the loop of TransformChannels: the channels one raw channel adds
\* to resultChannels.
transformChannel(t, rawChannel, teamInternalOnly) ==
    LET validMembers == filterValidMembers(rawChannel.Members, t.UsersById)
        built(channel) ==
            LET named == IF teamInternalOnly /\ channel.Type \in {"D", "G"}
                         THEN internalName(t, channel, validMembers)
                         ELSE Trim(channel.Name, {"_", "-"})
                prefixed == IF Len(named) = 1 THEN SlackChannelPrefix \o named ELSE named
                name == IF ~isValidChannelNameCharacters(prefixed)
                        THEN ToLower(channel.Id) ELSE prefixed
                newChannel ==
                    [EmptyIntermediateChannel EXCEPT
                        !.OriginalName = getOriginalName(channel),
                        !.Name = name,
                        !.DisplayName = name,
                        !.Members = validMembers,
                        !.Purpose = channel.Purpose.Value,
                        !.Header = channel.Topic.Value,
                        !.Type = IF teamInternalOnly /\ channel.Type \in {"D", "G"}
                                 THEN "P" ELSE channel.Type]
            IN  IF newChannel.Type \in {"O", "P"}
                THEN Sanitise(ApplyChannelOverrides(t, newChannel).target)
                ELSE Sanitise(newChannel)
    IN  IF rawChannel.Type \in {"D", "G"} /\ Len(validMembers) <= 1 THEN <<>>
        ELSE <<built(demoteLargeGroup(rawChannel, validMembers))>>

\* TransformChannels
RECURSIVE TransformChannels(_, _, _)
TransformChannels(t, channels, teamInternalOnly) ==
    IF channels = <<>> THEN <<>>
    ELSE transformChannel(t, Head(channels), teamInternalOnly)
            \o TransformChannels(t, Tail(channels), teamInternalOnly)

-----------------------------------------------------------------------------
(* The inputs of the channel transform and of the overrides.               *)

MaxUsers == 10

\* A text of n characters c.
Repeated(c, n) == [k \in 1..n |-> c]

NumberText(n) ==
    IF n < 10 THEN <<Digits[n + 1]>> ELSE <<Digits[(n \div 10) + 1], Digits[(n % 10) + 1]>>

UserId(n) == <<"U">> \o NumberText(n)

\* Usernames in the reverse of the order of the ids.
UsernameOf(n) == <<LowerCase[Len(LowerCase) - n], "x">>

IntermediateUser(id, username, firstName, lastName, position, email, password) ==
    [Id |-> id, Username |-> username, FirstName |-> firstName, LastName |-> lastName,
     Position |-> position, Email |-> email, Password |-> password, Memberships |-> <<>>]

\* The user index: MaxUsers users of the export.
UsersByIdDomain ==
    [id \in {UserId(n) : n \in 1..MaxUsers} |->
        LET n == CHOOSE k \in 1..MaxUsers : UserId(k) = id
        IN  IntermediateUser(id, UsernameOf(n), <<"F">>, <<"L">>, <<"P">>,
                             UsernameOf(n) \o <<"@", "e", "x", "a", "m", "p", "l", "e", ".", "c", "o", "m">>, <<>>)]

StrangerId == <<"U", "X">>

\* The first n users of the index, after a user that is not in it.
MembersOf(n, withStranger) ==
    (IF withStranger THEN <<StrangerId>> ELSE <<>>) \o [k \in 1..n |-> UserId(k)]

RawMembers == {MembersOf(n, withStranger) : n \in 0..MaxUsers, withStranger \in BOOLEAN}

RawNames ==
    {<<>>, <<"x">>, <<"g", "e", "n", "e", "r", "a", "l">>, <<"_", "d", "e", "v", "-">>, <<"a", " ", "b">>, Repeated("n", ChannelNameMaxLength + 1)}

RawPurposes ==
    {<<>>, <<"p">>, <<"t", "a", "l", "k">>, <<"-", "t", "_", "m", "_">>, <<"o", " ", "p">>, Repeated("p", ChannelPurposeMaxRunes + 1)}

RawTopics == {<<"t">>, Repeated("t", ChannelHeaderMaxRunes + 1)}

RawChannels ==
    {Channel(<<"C", "1">>, name, UserId(1), members, purpose, topic, type) :
        name \in RawNames, members \in RawMembers, purpose \in RawPurposes,
        topic \in RawTopics, type \in {"O", "P", "D", "G"}}

\* An entry of the channel overrides: each field absent, a single dash or a value.
OverrideValues == {<<>>, <<"-">>, <<"n", "e", "w">>}

ChannelOverrideEntries ==
    [Name : OverrideValues, DisplayName : OverrideValues, Purpose : OverrideValues,
     Header : OverrideValues, Topic : OverrideValues]

UserOverrideEntries ==
    [Username : OverrideValues, FirstName : OverrideValues, LastName : OverrideValues,
     Position : OverrideValues, Email : OverrideValues, Password : OverrideValues]

\* The override tables: none, one entry for the key, one entry for another key.
OverrideTables(key, entries) ==
    {EmptyMap} \cup {Put(EmptyMap, k, entry) : k \in {key, <<"o", "t", "h", "e", "r">>}, entry \in entries}

Transformer(channelOverrides, userOverrides) ==
    [UsersById |-> UsersByIdDomain, ChannelOverrides |-> channelOverrides,
     UserOverrides |-> userOverrides]

\* The channels the overrides are applied to.
ChannelTargets ==
    {[EmptyIntermediateChannel EXCEPT
         !.OriginalName = <<"g", "e", "n", "e", "r", "a", "l">>, !.Name = <<"g", "e", "n", "e", "r", "a", "l">>, !.DisplayName = <<"g", "e", "n", "e", "r", "a", "l">>,
         !.Purpose = purpose, !.Header = <<"h">>, !.Topic = <<"t">>, !.Type = type] :
        purpose \in {<<>>, <<"t", "a", "l", "k">>}, type \in {"O", "P"}}

\* The users the overrides are applied to.
UserTargets ==
    {IntermediateUser(UserId(1), <<"a", "l", "i", "c", "e">>, firstName, <<"L">>, <<"P">>, <<"a", "@", "b">>, <<"s">>) :
        firstName \in {<<>>, <<"F">>}}

\* The contexts of TransformChannels: a few override tables, either kind of import.
TransformChannelsContexts ==
    {[t |-> Transformer(channelOverrides, EmptyMap), teamInternalOnly |-> teamInternalOnly] :
        channelOverrides \in
            {EmptyMap,
             Put(EmptyMap, <<"t", "a", "l", "k">>, [Name |-> <<"n", "e", "w">>, DisplayName |-> <<"-">>, Purpose |-> <<>>,
                                    Header |-> <<"-">>, Topic |-> <<>>]),
             Put(EmptyMap, <<"g", "e", "n", "e", "r", "a", "l">>, [Name |-> <<"-">>, DisplayName |-> <<"n", "e", "w">>,
                                       Purpose |-> <<"-">>, Header |-> <<>>, Topic |-> <<>>]),
             Put(EmptyMap,
                 <<"c", "1", "-", "g", "r", "o", "u", "p", "-">> \o UsernameOf(2) \o <<"-">> \o UsernameOf(1),
                 [Name |-> <<"r", "e", "n", "a", "m", "e", "d">>, DisplayName |-> <<>>, Purpose |-> <<"-">>,
                  Header |-> <<>>, Topic |-> <<>>])},
        teamInternalOnly \in BOOLEAN}

\* The channel lists given to TransformChannels: one channel, or one channel
\* before a large group.
RawChannelLists ==
    {<<channel>> : channel \in RawChannels}
        \cup {<<channel, Channel(<<"C", "2">>, <<"_", "d", "e", "v", "-">>, UserId(1), MembersOf(MaxUsers, FALSE),
                                 <<"t", "a", "l", "k">>, <<"t">>, "G")>> :
                 channel \in {c \in RawChannels : c.Purpose.Value = <<>> /\ c.Topic.Value = <<"t">>}}

CallTransformChannels ==
    /\ pc = "call"
    /\ rule = "TransformChannels"
    /\ ruleOut' = TransformChannels(argB.t, argA, argB.teamInternalOnly)
    /\ pc' = "returned"
    /\ UNCHANGED <<rule, argA, argB, slackExports, idx, result, err, postVars>>

CallApplyChannelOverrides ==
    /\ pc = "call"
    /\ rule = "ApplyChannelOverrides"
    /\ ruleOut' = ApplyChannelOverrides(argB, argA)
    /\ pc' = "returned"
    /\ UNCHANGED <<rule, argA, argB, slackExports, idx, result, err, postVars>>

CallApplyUserOverrides ==
    /\ pc = "call"
    /\ rule = "ApplyUserOverrides"
    /\ ruleOut' = ApplyUserOverrides(argB, argA)
    /\ pc' = "returned"
    /\ UNCHANGED <<rule, argA, argB, slackExports, idx, result, err, postVars>>

-----------------------------------------------------------------------------
(* Post transform.  An IntermediatePost is reached through pointers: a     *)
(* pointer is the position in channelPosts of the raw post it was made     *)
(* from, newPosts holds the posts by pointer, and Replies, threads and     *)
(* resultPosts hold pointers.  A JSON value that is only measured (the     *)
(* raw original of a post, an attachment) is kept as [Runes |-> n], the    *)
(* number of runes of its serialisation.  Posts have no files.             *)

PostPropsMaxRunes == 800000

\* The text model.NewId() returns; it is random, the model has one.
NewId == <<"n", "e", "w", "i", "d">>

\* The kinds of a SlackPost, by its discriminator.
IsPlainMessage(post) ==
    post.Type = "message" /\ post.SubType \in {"", "file_share", "thread_broadcast"}

IsFileComment(post) == post.Type = "message" /\ post.SubType = "file_comment"

IsBotMessage(post) == post.Type = "message" /\ post.SubType = "bot_message"

IsJoinLeaveMessage(post) ==
    post.Type = "message" /\ post.SubType \in {"channel_join", "channel_leave"}

IsMeMessage(post) == post.Type = "message" /\ post.SubType = "me_message"

IsChannelTopicMessage(post) == post.Type = "message" /\ post.SubType = "channel_topic"

IsChannelPurposeMessage(post) == post.Type = "message" /\ post.SubType = "channel_purpose"

IsChannelNameMessage(post) == post.Type = "message" /\ post.SubType = "channel_name"

\* The case of the switch of TransformPosts that a post takes.
postCase(post) ==
    IF IsPlainMessage(post) THEN "plain"
    ELSE IF IsFileComment(post) THEN "file comment"
    ELSE IF IsBotMessage(post) THEN "bot"
    ELSE IF \/ IsJoinLeaveMessage(post) \/ IsMeMessage(post) \/ IsChannelTopicMessage(post)
            \/ IsChannelPurposeMessage(post) \/ IsChannelNameMessage(post) THEN "system"
    ELSE "default"

\* CreateIntermediateUser: the user index afterwards.
CreateIntermediateUser(t, users, userID) ==
    Put(users, userID,
        ApplyUserOverrides(t, IntermediateUser(userID, ToLower(userID), <<"D", "e", "l", "e", "t", "e", "d">>, <<"U", "s", "e", "r">>,
                                               <<>>, userID \o <<"@", "l", "o", "c", "a", "l">>, NewId)).target)

HasSuffix(s, suffix) ==
    Len(s) >= Len(suffix) /\ SubSeq(s, Len(s) - Len(suffix) + 1, Len(s)) = suffix

SkinTones ==
    <<[slack |-> <<":", ":", "s", "k", "i", "n", "-", "t", "o", "n", "e", "-", "2">>, mm |-> <<"_", "l", "i", "g", "h", "t", "_", "s", "k", "i", "n", "_", "t", "o", "n", "e">>],
      [slack |-> <<":", ":", "s", "k", "i", "n", "-", "t", "o", "n", "e", "-", "3">>, mm |-> <<"_", "m", "e", "d", "i", "u", "m", "_", "l", "i", "g", "h", "t", "_", "s", "k", "i", "n", "_", "t", "o", "n", "e">>],
      [slack |-> <<":", ":", "s", "k", "i", "n", "-", "t", "o", "n", "e", "-", "4">>, mm |-> <<"_", "m", "e", "d", "i", "u", "m", "_", "s", "k", "i", "n", "_", "t", "o", "n", "e">>],
      [slack |-> <<":", ":", "s", "k", "i", "n", "-", "t", "o", "n", "e", "-", "5">>, mm |-> <<"_", "m", "e", "d", "i", "u", "m", "_", "d", "a", "r", "k", "_", "s", "k", "i", "n", "_", "t", "o", "n", "e">>],
      [slack |-> <<":", ":", "s", "k", "i", "n", "-", "t", "o", "n", "e", "-", "6">>, mm |-> <<"_", "d", "a", "r", "k", "_", "s", "k", "i", "n", "_", "t", "o", "n", "e">>]>>

\* SlackConvertEmojiName
RECURSIVE SlackConvertEmojiName(_)
SlackConvertEmojiName(slackEmojiName) ==
    LET tones == {n \in 1..Len(SkinTones) : HasSuffix(slackEmojiName, SkinTones[n].slack)}
        toned(skinTone) ==
            SlackConvertEmojiName(SubSeq(slackEmojiName, 1,
                                         Len(slackEmojiName) - Len(skinTone.slack)))
                \o skinTone.mm
    IN  IF tones # {}
        THEN toned(SkinTones[CHOOSE n \in tones : \A m \in tones : n <= m])
        ELSE [k \in 1..Len(slackEmojiName) |->
                 IF slackEmojiName[k] = ":" THEN "_" ELSE slackEmojiName[k]]

\* The (emoji name, user id) pairs of the reactions, in the order of the loops.
RECURSIVE reactionPairs(_)
reactionPairs(slackReactions) ==
    IF slackReactions = <<>> THEN <<>>
    ELSE [n \in 1..Len(Head(slackReactions).Users) |->
             [Name |-> Head(slackReactions).Name, User |-> Head(slackReactions).Users[n]]]
         \o reactionPairs(Tail(slackReactions))

\* The user index after the users of the pairs that it lacks were created.
RECURSIVE withReactingUsers(_, _, _)
withReactingUsers(t, users, pairs) ==
    IF pairs = <<>> THEN users
    ELSE withReactingUsers(t,
             IF Head(pairs).User \in DOMAIN users THEN users
             ELSE CreateIntermediateUser(t, users, Head(pairs).User),
             Tail(pairs))

\* SlackConvertReactions: the reactions, and the user index afterwards.  A
\* pointer to a slice is Nil or [elems |-> the slice].
SlackConvertReactions(t, users, slackReactions, postCreateAt) ==
    IF slackReactions = Nil THEN [reactions |-> Nil, users |-> users]
    ELSE LET converted(pairs, created) ==
                 [reactions |->
                      [elems |->
                          [n \in 1..Len(pairs) |->
                              [User |-> created[pairs[n].User].Username,
                               CreateAt |-> postCreateAt + 1,
                               EmojiName |-> SlackConvertEmojiName(pairs[n].Name)]]],
                  users |-> created]
             listed(pairs) == converted(pairs, withReactingUsers(t, users, pairs))
         IN  listed(reactionPairs(slackReactions.elems))

\* The runes of the JSON array of the values.
RECURSIVE arrayRunes(_)
arrayRunes(values) ==
    IF values = <<>> THEN 2
    ELSE IF Len(values) = 1 THEN 2 + values[1].Runes
    ELSE values[1].Runes + 1 + arrayRunes(Tail(values))

\* GetPropsForPost: the properties, and the runes of their JSON serialisation.
GetPropsForPost(post, addAttachments, addOriginal) ==
    LET keys == (IF addAttachments THEN {"attachments"} ELSE {})
                    \cup (IF addOriginal THEN {"slackOriginal"} ELSE {})
        props == [k \in keys |-> IF k = "attachments" THEN post.Attachments ELSE post.Original]
    IN  IF keys = {} THEN [props |-> Nil, runes |-> 0]
        ELSE [props |-> props,
              runes |-> 2 + (IF addAttachments THEN 14 + arrayRunes(post.Attachments) ELSE 0)
                          + (IF addAttachments /\ addOriginal THEN 1 ELSE 0)
                          + (IF addOriginal THEN 16 + post.Original.Runes ELSE 0)]

IntermediatePost(user, channel, message, createAt, reactions) ==
    [User |-> user, Channel |-> channel, Message |-> message, Props |-> Nil,
     CreateAt |-> createAt, Attachments |-> <<>>, Replies |-> <<>>, IsDirect |-> FALSE,
     ChannelMembers |-> <<>>, Reactions |-> reactions]

\* The post made of a raw post up to the check of its properties: the author is
\* looked up by lookupId and, when missing, created by createId.  The post is
\* Nil when it is discarded for its properties.
makePost(t, users, channel, post, lookupId, createId, message, withAttachments) ==
    LET made(authored, authorId) ==
            LET createAt == SlackConvertTimeStamp(post.TimeStamp)
                filled(converted, got) ==
                    LET newPost == IntermediatePost(authored[authorId].Username, channel.Name,
                                                    message, createAt, converted.reactions)
                    IN  [users |-> converted.users,
                         post |-> IF got.runes <= PostPropsMaxRunes
                                  THEN [newPost EXCEPT !.Props = got.props]
                                  ELSE IF t.discardInvalidProps THEN Nil ELSE newPost]
            IN  filled(SlackConvertReactions(t, authored, post.Reactions, createAt),
                       GetPropsForPost(post, withAttachments /\ Len(post.Attachments) > 0,
                                       t.addOriginal))
    IN  IF lookupId \in DOMAIN users THEN made(users, lookupId)
        ELSE made(CreateIntermediateUser(t, users, createId), createId)

firstFree_Same(createAt, taken) == createAt

firstFree_LeavesGap(createAt, taken) ==
    IF createAt \in taken THEN createAt + Cardinality(taken) + 1 ELSE createAt

\* The first timestamp from createAt on that is not taken.
RECURSIVE firstFree(_, _)
firstFree(createAt, taken) ==
    IF createAt \in taken THEN firstFree(createAt + 1, taken) ELSE createAt

AddPostToThreads_NoPerturbation(original, post, pointer, threadMap, channel, taken, heap) ==
    LET placed(direct) ==
            [post EXCEPT !.IsDirect = direct,
                         !.ChannelMembers = IF direct THEN channel.MembersUsernames ELSE @]
        stored(created) ==
            [timestamps |-> taken \cup {created.CreateAt},
             threads |-> IF original.ThreadTS # <<>> /\ original.ThreadTS # original.TimeStamp
                         THEN threadMap
                         ELSE Put(threadMap, original.TimeStamp, pointer),
             newPosts |-> IF /\ original.ThreadTS # <<>>
                             /\ original.ThreadTS # original.TimeStamp
                             /\ original.ThreadTS \in DOMAIN threadMap
                          THEN [Put(heap, pointer, created) EXCEPT
                                   ![threadMap[original.ThreadTS]].Replies = Append(@, pointer)]
                          ELSE Put(heap, pointer, created)]
    IN  stored(placed(channel.Type \in {"D", "G"}))

AddPostToThreads_OrphansAreRoots(original, post, pointer, threadMap, channel, taken, heap) ==
    LET placed(direct) ==
            [post EXCEPT !.IsDirect = direct,
                         !.ChannelMembers = IF direct THEN channel.MembersUsernames ELSE @,
                         !.CreateAt = firstFree(@, taken)]
        stored(created) ==
            [timestamps |-> taken \cup {created.CreateAt},
             threads |-> IF /\ original.ThreadTS # <<>>
                            /\ original.ThreadTS # original.TimeStamp
                            /\ original.ThreadTS \in DOMAIN threadMap
                         THEN threadMap
                         ELSE Put(threadMap, original.TimeStamp, pointer),
             newPosts |-> IF /\ original.ThreadTS # <<>>
                             /\ original.ThreadTS # original.TimeStamp
                             /\ original.ThreadTS \in DOMAIN threadMap
                          THEN [Put(heap, pointer, created) EXCEPT
                                   ![threadMap[original.ThreadTS]].Replies = Append(@, pointer)]
                          ELSE Put(heap, pointer, created)]
    IN  stored(placed(channel.Type \in {"D", "G"}))

AddPostToThreads_RepliesAreRoots(original, post, pointer, threadMap, channel, taken, heap) ==
    LET placed(direct) ==
            [post EXCEPT !.IsDirect = direct,
                         !.ChannelMembers = IF direct THEN channel.MembersUsernames ELSE @,
                         !.CreateAt = firstFree(@, taken)]
        stored(created) ==
            [timestamps |-> taken \cup {created.CreateAt},
             threads |-> Put(threadMap, original.TimeStamp, pointer),
             newPosts |-> IF /\ original.ThreadTS # <<>>
                             /\ original.ThreadTS # original.TimeStamp
                             /\ original.ThreadTS \in DOMAIN threadMap
                          THEN [Put(heap, pointer, created) EXCEPT
                                   ![threadMap[original.ThreadTS]].Replies = Append(@, pointer)]
                          ELSE Put(heap, pointer, created)]
    IN  stored(placed(channel.Type \in {"D", "G"}))

\* AddPostToThreads: the timestamps taken, the thread map and the posts
\* afterwards, the post being reached through the pointer.
AddPostToThreads(original, post, pointer, threadMap, channel, taken, heap) ==
    LET placed(direct) ==
            [post EXCEPT !.IsDirect = direct,
                         !.ChannelMembers = IF direct THEN channel.MembersUsernames ELSE @,
                         !.CreateAt = firstFree(@, taken)]
        stored(created) ==
            [timestamps |-> taken \cup {created.CreateAt},
             threads |-> IF original.ThreadTS # <<>> /\ original.ThreadTS # original.TimeStamp
                         THEN threadMap
                         ELSE IF original.TimeStamp = original.ThreadTS
                         THEN Put(threadMap, original.ThreadTS, pointer)
                         ELSE Put(threadMap, original.TimeStamp, pointer),
             newPosts |-> IF /\ original.ThreadTS # <<>>
                             /\ original.ThreadTS # original.TimeStamp
                             /\ original.ThreadTS \in DOMAIN threadMap
                          THEN [Put(heap, pointer, created) EXCEPT
                                   ![threadMap[original.ThreadTS]].Replies = Append(@, pointer)]
                          ELSE Put(heap, pointer, created)]
    IN  stored(placed(channel.Type \in {"D", "G"}))

-----------------------------------------------------------------------------
(* TransformPosts, for the posts of one channel of slackExport.Posts.      *)

MaxPosts == 3

RawPost(user, botId, text, timeStamp, threadTS, subType, comment, reactions, original) ==
    [User |-> user, BotId |-> botId, Text |-> text, TimeStamp |-> timeStamp,
     ThreadTS |-> threadTS, Type |-> "message", SubType |-> subType, Comment |-> comment,
     Reactions |-> reactions, Attachments |-> <<>>, Original |-> original]

PlainPost(user, text, timeStamp, threadTS) ==
    RawPost(user, <<>>, text, timeStamp, threadTS, "", Nil, Nil, [Runes |-> 2])

\* The raw posts a channel is made of.  The originals of the replies "c" and
\* "d" fit in the properties of a post one by one, but not together.
\*  <<"1", ".", "0", "0", "0", "0">>, <<"1", ".", "0", "0", "0">> are the same
\* microsecond; <<"1", ".", "0", "0", "0", "0">> to <<"1", ".", "0", "0", "0", "4">> are the same millisecond; "x" and "y" are
\* no numbers.
RawPosts ==
    {PlainPost(UserId(1), <<"a">>, <<"1", ".", "0", "0", "0", "0">>, <<>>),
     PlainPost(UserId(2), <<"b">>, <<"1", ".", "0", "0", "0", "4">>, <<"1", ".", "0", "0", "0", "4">>),
     RawPost(UserId(1), <<>>, <<"c">>, <<"1", ".", "0", "0", "0", "3">>, <<"1", ".", "0", "0", "0", "0">>, "", Nil, Nil,
             [Runes |-> 5 * (PostPropsMaxRunes \div 8)]),
     RawPost(StrangerId, <<>>, <<"d">>, <<"1", ".", "0", "0", "0", "5">>, <<"1", ".", "0", "0", "0", "0">>, "", Nil, Nil,
             [Runes |-> 5 * (PostPropsMaxRunes \div 8)]),
     PlainPost(UserId(1), <<"e">>, <<"1", ".", "0", "0", "0">>, <<"1", ".", "0", "0", "0", "0">>),
     PlainPost(UserId(2), <<"f">>, <<"1", ".", "0", "0", "0", "0">>, <<>>),
     PlainPost(UserId(1), <<"g">>, <<"1", ".", "0", "0", "0", "2">>, <<"9">>),
     RawPost(<<>>, <<>>, <<>>, <<"1", ".", "0", "0", "0", "1">>, <<>>, "file_comment",
             [User |-> UserId(2), Comment |-> <<"h">>], Nil, [Runes |-> 2]),
     RawPost(UserId(1), <<>>, <<>>, <<"1", ".", "0", "0", "0", "6">>, <<>>, "file_comment",
             [User |-> StrangerId, Comment |-> <<"i">>], Nil, [Runes |-> 2]),
     RawPost(<<>>, <<"B", "1">>, <<"j">>, <<"1", ".", "0", "0", "0", "4">>, <<"1", ".", "0", "0", "0", "0">>, "bot_message", Nil, Nil,
             [Runes |-> 2]),
     RawPost(UserId(1), <<>>, <<"k">>, <<"2">>, <<>>, "channel_join", Nil, Nil, [Runes |-> 2]),
     RawPost(UserId(2), <<>>, <<"l">>, <<"1", ".", "0", "0", "0", "7">>, <<"1", ".", "0", "0", "0", "0">>, "me_message", Nil, Nil,
             [Runes |-> 2]),
     RawPost(UserId(1), <<>>, <<"m">>, <<"1", ".", "0", "0", "0", "4">>, <<>>, "pinned_item", Nil, Nil,
             [Runes |-> 2]),
     PlainPost(<<>>, <<"n">>, <<"1", ".", "0", "0", "0", "8">>, <<>>),
     RawPost(UserId(1), <<>>, <<"o">>, <<"1", ".", "0", "0", "0", "9">>, <<>>, "", Nil, Nil,
             [Runes |-> PostPropsMaxRunes]),
     PlainPost(UserId(1), <<"p">>, <<"x">>, <<>>),
     PlainPost(UserId(2), <<"q">>, <<"y">>, <<"x">>),
     RawPost(UserId(2), <<>>, <<"r">>, <<"3">>, <<>>, "", Nil,
             [elems |-> <<[Name |-> <<"+", "1", ":", ":", "s", "k", "i", "n", "-",
                                      "t", "o", "n", "e", "-", "2">>,
                           Count |-> 2, Users |-> <<UserId(1), <<"U", "7", "7">>>>]>>],
             [Runes |-> 2]),
     RawPost(UserId(1), <<>>, <<"s">>, <<"1", ".", "0", "0", "0", "1", "1">>, <<>>, "", Nil,
             [elems |-> <<[Name |-> <<"t", "a", "d", "a">>, Count |-> 1,
                           Users |-> <<UserId(2)>>]>>],
             [Runes |-> 2])}

\* The channel's posts as the export gives them: up to MaxPosts different posts.
RawPostLists ==
    UNION {{posts \in [1..n -> RawPosts] :
               \A i, j \in 1..n : i # j => posts[i] # posts[j]} : n \in 0..MaxPosts}

\* What TransformPosts is called with, besides the posts: the channel of the
\* posts' name (Nil when there is none), the flags and the user overrides.
TransformPostsContext(channel, discardInvalidProps, addOriginal, userOverrides) ==
    [channel |-> channel, discardInvalidProps |-> discardInvalidProps,
     addOriginal |-> addOriginal, UserOverrides |-> userOverrides]

TransformPostsContexts ==
    {TransformPostsContext(
         [EmptyIntermediateChannel EXCEPT !.Name = <<"g", "e", "n", "e", "r", "a", "l">>, !.Type = "O"],
         FALSE, FALSE, EmptyMap),
     TransformPostsContext(
         [EmptyIntermediateChannel EXCEPT !.Name = <<"g", "e", "n", "e", "r", "a", "l">>, !.Type = "O"],
         TRUE, TRUE,
         Put(EmptyMap, ToLower(StrangerId),
             [Username |-> <<"g", "h", "o", "s", "t">>, FirstName |-> <<"-">>, LastName |-> <<>>,
              Position |-> <<>>, Email |-> <<"-">>, Password |-> <<>>])),
     TransformPostsContext(
         [EmptyIntermediateChannel EXCEPT
             !.Name = <<"d", "m">>, !.Type = "D", !.MembersUsernames = <<UsernameOf(1), UsernameOf(2)>>],
         FALSE, TRUE, EmptyMap),
     TransformPostsContext(Nil, FALSE, FALSE, EmptyMap)}

\* The orders sort.Slice may leave the posts in: it is not stable, so posts of
\* equal microseconds come in any order.
SortedByMicroSeconds(posts) ==
    {sorted \in {[k \in 1..Len(posts) |-> posts[f[k]]] :
                    f \in {g \in [1..Len(posts) -> 1..Len(posts)] :
                              \A i, j \in 1..Len(posts) : i # j => g[i] # g[j]}} :
        \A i, j \in 1..Len(posts) :
            i < j => SlackConvertTimeStampToMicroSeconds(sorted[i].TimeStamp)
                        <= SlackConvertTimeStampToMicroSeconds(sorted[j].TimeStamp)}

\* The orders in which ranging over the map gives its values.
ValuesInAnyOrder(m) ==
    LET n == Cardinality(DOMAIN m)
    IN  {[k \in 1..n |-> m[f[k]]] :
            f \in {g \in [1..n -> DOMAIN m] : \A i, j \in 1..n : i # j => g[i] # g[j]}}

\* One turn of the loop of TransformPosts as a function: the user index, the
\* timestamps taken, the thread map and the posts after the raw post, which is
\* reached through the pointer, has gone through its case of the switch.
transformPost(t, state, post, pointer) ==
    LET added(made) ==
            IF made.post = Nil THEN [state EXCEPT !.usersById = made.users]
            ELSE LET after(assembled) ==
                         [usersById |-> made.users,
                          timestamps |-> assembled.timestamps,
                          threads |-> assembled.threads,
                          newPosts |-> assembled.newPosts]
                 IN  after(AddPostToThreads(post, made.post, pointer, state.threads,
                                            t.channel, state.timestamps, state.newPosts))
        authored(lookupId, createId, message, withAttachments) ==
            IF lookupId = <<>> THEN state
            ELSE added(makePost(t, state.usersById, t.channel, post, lookupId, createId,
                                message, withAttachments))
        case == postCase(post)
    IN  IF case = "default" THEN state
        ELSE IF case = "file comment" /\ post.Comment = Nil THEN state
        ELSE authored(IF case = "file comment" THEN post.Comment.User
                      ELSE IF case = "bot" /\ post.BotId # <<>> THEN post.BotId
                      ELSE post.User,
                      IF case = "bot" /\ post.BotId # <<>> THEN post.BotId ELSE post.User,
                      IF case = "file comment" THEN post.Comment.Comment ELSE post.Text,
                      case \in {"plain", "bot"})

\* The loop of TransformPosts over the sorted posts of a channel, from the
\* post at the pointer on.
RECURSIVE transformPosts(_, _, _, _)
transformPosts(t, state, posts, pointer) ==
    IF pointer > Len(posts) THEN state
    ELSE transformPosts(t, transformPost(t, state, posts[pointer], pointer), posts,
                        pointer + 1)

\* The posts of a channel that is not among the transformed channels are left.
SkipUnknownChannel ==
    /\ pc = "sort"
    /\ rule = "TransformPosts"
    /\ argB.channel = Nil
    /\ pc' = "done"
    /\ UNCHANGED <<slackExports, idx, result, err, rule, argA, argB, ruleOut, postVars>>

SortChannelPosts ==
    /\ pc = "sort"
    /\ rule = "TransformPosts"
    /\ argB.channel # Nil
    /\ channelPosts' \in SortedByMicroSeconds(argA)
    /\ postIdx' = 1
    /\ timestamps' = {}
    /\ threads' = EmptyMap
    /\ pc' = "loop"
    /\ UNCHANGED <<slackExports, idx, result, err, rule, argA, argB, ruleOut,
                   newPosts, usersById, resultPosts>>

\* The loop is at a post that takes the given case of the switch.
AtPost(case) ==
    /\ pc = "loop"
    /\ rule = "TransformPosts"
    /\ postIdx <= Len(channelPosts)
    /\ postCase(channelPosts[postIdx]) = case

\* continue: the loop goes on and nothing else changes.
Continue ==
    /\ postIdx' = postIdx + 1
    /\ UNCHANGED <<slackExports, idx, result, err, pc, rule, argA, argB, ruleOut,
                   channelPosts, timestamps, threads, newPosts, usersById, resultPosts>>

\* The end of a case that has made a post: the post, unless it was discarded,
\* goes to AddPostToThreads, and the loop goes on.
Added(made) ==
    /\ usersById' = made.users
    /\ IF made.post = Nil
       THEN UNCHANGED <<timestamps, threads, newPosts>>
       ELSE LET added(after) ==
                    /\ timestamps' = after.timestamps
                    /\ threads' = after.threads
                    /\ newPosts' = after.newPosts
            IN  added(AddPostToThreads(channelPosts[postIdx], made.post, postIdx, threads,
                                       argB.channel, timestamps, newPosts))
    /\ postIdx' = postIdx + 1
    /\ UNCHANGED <<slackExports, idx, result, err, pc, rule, argA, argB, ruleOut,
                   channelPosts, resultPosts>>

TransformPlainMessage ==
    /\ AtPost("plain")
    /\ LET post == channelPosts[postIdx]
       IN  IF post.User = <<>> THEN Continue
           ELSE Added(makePost(argB, usersById, argB.channel, post, post.User, post.User,
                               post.Text, TRUE))

TransformFileComment ==
    /\ AtPost("file comment")
    /\ LET post == channelPosts[postIdx]
       IN  IF post.Comment = Nil THEN Continue
           ELSE IF post.Comment.User = <<>> THEN Continue
           ELSE Added(makePost(argB, usersById, argB.channel, post, post.Comment.User,
                               post.User, post.Comment.Comment, FALSE))

TransformBotMessage ==
    /\ AtPost("bot")
    /\ LET post == channelPosts[postIdx]
           botId == IF post.BotId = <<>> THEN post.User ELSE post.BotId
       IN  IF botId = <<>> THEN Continue
           ELSE Added(makePost(argB, usersById, argB.channel, post, botId, botId,
                               post.Text, TRUE))

\* The five cases that end in CreateAndAddPostToThreads.
TransformSystemMessage ==
    /\ AtPost("system")
    /\ LET post == channelPosts[postIdx]
       IN  IF post.User = <<>> THEN Continue
           ELSE Added(makePost(argB, usersById, argB.channel, post, post.User, post.User,
                               post.Text, FALSE))

SkipUnsupportedPost ==
    /\ AtPost("default")
    /\ Continue

\* The root posts of the channel are appended to resultPosts.
CollectChannelPosts ==
    /\ pc = "loop"
    /\ rule = "TransformPosts"
    /\ postIdx > Len(channelPosts)
    /\ resultPosts' \in ValuesInAnyOrder(threads)
    /\ pc' = "done"
    /\ UNCHANGED <<slackExports, idx, result, err, rule, argA, argB, ruleOut,
                   channelPosts, postIdx, timestamps, threads, newPosts, usersById>>

\* The pointers a sequence of pointers holds.
PointersOf(pointers) == {pointers[n] : n \in 1..Len(pointers)}

\* The decimal digits of a number.
RECURSIVE decimalDigits(_)
decimalDigits(n) == IF n < 10 THEN 1 ELSE 1 + decimalDigits(n \div 10)

ArchiveKey == "slackOriginalRepliesCompressedBase64"

\* The runes of the JSON serialisation of the properties of a post.
propsRunes(props) ==
    LET runes(key) ==
            IF key = "attachments" THEN 14 + arrayRunes(props[key])
            ELSE IF key = "slackOriginal" THEN 16 + props[key].Runes
            ELSE 39 + props[key].Runes
        count == Cardinality(DOMAIN props)
    IN  2 + (IF "attachments" \in DOMAIN props THEN runes("attachments") ELSE 0)
          + (IF "slackOriginal" \in DOMAIN props THEN runes("slackOriginal") ELSE 0)
          + (IF ArchiveKey \in DOMAIN props THEN runes(ArchiveKey) ELSE 0)
          + (IF count > 1 THEN count - 1 ELSE 0)

\* The runes of the entries of slackOriginalReplies for the replies: one entry
\* under the creation timestamp of each reply whose slackOriginal property is
\* a string, with the commas between them.
RECURSIVE repliesRunes(_, _)
repliesRunes(replies, heap) ==
    IF replies = <<>> THEN 0
    ELSE LET reply == heap[replies[1]]
             rest == repliesRunes(Tail(replies), heap)
         IN  IF reply.Props = Nil \/ "slackOriginal" \notin DOMAIN reply.Props THEN rest
             ELSE decimalDigits(reply.CreateAt) + 3 + reply.Props["slackOriginal"].Runes
                      + (IF rest > 0 THEN 1 + rest ELSE 0)

\* What zlib may leave of the bytes: it depends on the text of the originals,
\* of which the model has the length only; a tenth and the whole are taken.
Compressions == {10, 1}

\* The length of the base64 encoding of n bytes.
base64Runes(n) == 4 * ((n + 2) \div 3)

\* The post with replies after the archive of the originals of its replies was
\* added to its properties, or was not for its size.
compactReplies(post, heap, compression, discardInvalidProps) ==
    LET archived(props) ==
            IF propsRunes(props) <= PostPropsMaxRunes THEN [post EXCEPT !.Props = props]
            ELSE IF discardInvalidProps
            THEN post    \* continue: the post stays in resultPosts as it is
            ELSE post
        cloned(old) ==
            archived([k \in DOMAIN old \cup {ArchiveKey} |->
                         IF k = ArchiveKey
                         THEN [Runes |-> 2 + base64Runes((2 + repliesRunes(post.Replies, heap))
                                                             \div compression)]
                         ELSE old[k]])
    IN  cloned(IF post.Props = Nil THEN EmptyMap ELSE post.Props)

\* With addOriginal, the posts of resultPosts that have replies get the
\* archive of their replies' originals.
CompactReplyOriginals ==
    /\ pc = "done"
    /\ rule = "TransformPosts"
    /\ argB.addOriginal
    /\ \E compression \in Compressions :
           newPosts' = [pointer \in DOMAIN newPosts |->
                           IF pointer \in PointersOf(resultPosts)
                              /\ Len(newPosts[pointer].Replies) > 0
                           THEN compactReplies(newPosts[pointer], newPosts, compression,
                                               argB.discardInvalidProps)
                           ELSE newPosts[pointer]]
    /\ pc' = "returned"
    /\ UNCHANGED <<slackExports, idx, result, err, rule, argA, argB, ruleOut,
                   channelPosts, postIdx, timestamps, threads, usersById, resultPosts>>

\* Without addOriginal, the posts are returned as they are.
ReturnPosts ==
    /\ pc = "done"
    /\ rule = "TransformPosts"
    /\ ~argB.addOriginal
    /\ pc' = "returned"
    /\ UNCHANGED <<slackExports, idx, result, err, rule, argA, argB, ruleOut,
                   channelPosts, postIdx, timestamps, threads, newPosts, usersById,
                   resultPosts>>

PostsInit ==
    /\ slackExports = <<>>
    /\ idx = 0
    /\ result = Nil
    /\ err = "nil"
    /\ ruleOut = Nil
    /\ rule = "TransformPosts"
    /\ pc = "sort"
    /\ argA \in RawPostLists
    /\ argB \in TransformPostsContexts
    /\ channelPosts = <<>>
    /\ postIdx = 0
    /\ timestamps = {}
    /\ threads = EmptyMap
    /\ newPosts = EmptyMap
    /\ usersById = UsersByIdDomain
    /\ resultPosts = <<>>

PostsNext ==
    \/ SkipUnknownChannel
    \/ SortChannelPosts
    \/ TransformPlainMessage
    \/ TransformFileComment
    \/ TransformBotMessage
    \/ TransformSystemMessage
    \/ SkipUnsupportedPost
    \/ CollectChannelPosts
    \/ CompactReplyOriginals
    \/ ReturnPosts

PostsSpec == PostsInit /\ [][PostsNext]_vars

-----------------------------------------------------------------------------
(* TransformAllChannels: the four channel lists of the intermediate.       *)

\* SplitChannelsByMemberSize: the channels of at most limit members, and those
\* of more, each in the order of the list.
SplitChannelsByMemberSize(channels, limit) ==
    [regular |-> SelectSeq(channels, LAMBDA channel : Len(channel.Members) <= limit),
     big |-> SelectSeq(channels, LAMBDA channel : Len(channel.Members) > limit)]

\* TransformAllChannels: the lists of t.Intermediate afterwards.
TransformAllChannels(t, slackExport, teamInternalOnly) ==
    LET listed(split) ==
            [PublicChannels |->
                 TransformChannels(t, slackExport.PublicChannels, teamInternalOnly),
             PrivateChannels |->
                 TransformChannels(t, slackExport.PrivateChannels, teamInternalOnly)
                     \o TransformChannels(t, split.big, teamInternalOnly)
                     \o (IF teamInternalOnly
                         THEN TransformChannels(t, split.regular, teamInternalOnly)
                                  \o TransformChannels(t, slackExport.DirectChannels,
                                                       teamInternalOnly)
                         ELSE <<>>),
             GroupChannels |->
                 IF teamInternalOnly THEN <<>>
                 ELSE TransformChannels(t, split.regular, teamInternalOnly),
             DirectChannels |->
                 IF teamInternalOnly THEN <<>>
                 ELSE TransformChannels(t, slackExport.DirectChannels, teamInternalOnly)]
    IN  listed(SplitChannelsByMemberSize(slackExport.GroupChannels, ChannelGroupMaxUsers))

\* The exports given to TransformAllChannels: a public and a private channel, a
\* group of any members and a direct channel of one or two users.
ChannelExports ==
    {[[[[EmptyExport EXCEPT
            !.PublicChannels = <<Channel(<<"C", "1">>, <<"g", "e", "n", "e", "r", "a", "l">>, UserId(1),
                                         MembersOf(2, FALSE), <<"t", "a", "l", "k">>, <<"t">>, "O")>>]
         EXCEPT !.PrivateChannels = <<Channel(<<"C", "2">>, <<"_", "d", "e", "v", "-">>, UserId(1),
                                              MembersOf(1, TRUE), <<>>, <<"t">>, "P")>>]
         EXCEPT !.GroupChannels = <<Channel(<<"C", "3">>, <<>>, UserId(1), members,
                                            <<"t", "a", "l", "k">>, <<"t">>, "G")>>]
         EXCEPT !.DirectChannels = <<Channel(<<"C", "4">>, <<>>, UserId(1),
                                             MembersOf(directMembers, FALSE), <<>>, <<>>,
                                             "D")>>] :
        members \in RawMembers, directMembers \in {1, 2}}

CallTransformAllChannels ==
    /\ pc = "call"
    /\ rule = "TransformAllChannels"
    /\ ruleOut' = TransformAllChannels(argB.t, argA, argB.teamInternalOnly)
    /\ pc' = "returned"
    /\ UNCHANGED <<rule, argA, argB, slackExports, idx, result, err, postVars>>

-----------------------------------------------------------------------------
(* The specification of the transform's functions: one of them is applied  *)
(* to one input.                                                           *)

-----------------------------------------------------------------------------
(* TransformUsers, and the placeholder users that the post transform adds   *)
(* to its index.                                                            *)

ExampleDomain == <<"@", "e", "x", "a", "m", "p", "l", "e", ".", "c", "o", "m">>

\* IntermediateUser.Sanitise
SanitiseUser(u) ==
    IF u.Email = <<>> THEN [u EXCEPT !.Email = u.Username \o ExampleDomain] ELSE u

transformUser_SanitiseFirst(t, user) ==
    LET named(newUser) ==
            IF user.IsBot THEN [newUser EXCEPT !.Id = user.Profile.BotID] ELSE newUser
    IN  ApplyUserOverrides(t, SanitiseUser(named(
            IntermediateUser(user.Id, user.Username, user.Profile.FirstName,
                             user.Profile.LastName, user.Profile.Title,
                             user.Profile.Email, NewId)))).target

\* The intermediate user that one turn of the loop of TransformUsers stores.
transformUser(t, user) ==
    LET named(newUser) ==
            IF user.IsBot THEN [newUser EXCEPT !.Id = user.Profile.BotID] ELSE newUser
    IN  SanitiseUser(ApplyUserOverrides(t, named(
            IntermediateUser(user.Id, user.Username, user.Profile.FirstName,
                             user.Profile.LastName, user.Profile.Title,
                             user.Profile.Email, NewId))).target)

\* TransformUsers: the user index.
RECURSIVE TransformUsers(_, _)
TransformUsers(t, users) ==
    IF users = <<>> THEN EmptyMap
    ELSE LET stored(newUser) ==
                 Put(TransformUsers(t, SubSeq(users, 1, Len(users) - 1)), newUser.Id, newUser)
         IN  stored(transformUser(t, users[Len(users)]))

MaxRawUsers == 2

Alice == <<"a", "l", "i", "c", "e">>

\* The users of the export: with and without email, people and bots.
RawUsers ==
    {[Id |-> id, Username |-> username, IsBot |-> isBot,
      Profile |-> [BotID |-> <<"B", "1">>, FirstName |-> <<"F">>, LastName |-> <<"L">>,
                   Title |-> <<"P">>, Email |-> email]] :
        id \in {UserId(1), UserId(2)}, username \in {Alice, <<"b", "o", "b">>},
        isBot \in BOOLEAN, email \in {<<>>, <<"a", "@", "b">>}}

RawUserLists == UNION {[1..n -> RawUsers] : n \in 0..MaxRawUsers}

\* The override tables for the users: entries with and without a username
\* and an email.
UserOverrideTables ==
    OverrideTables(Alice,
                   {entry \in UserOverrideEntries :
                        /\ entry.FirstName = <<>> /\ entry.LastName = <<>>
                        /\ entry.Position = <<>> /\ entry.Password = <<>>})

\* The ids under which the post transform comes to create a placeholder: of
\* a user missing from the export, the empty id of a file comment without a
\* user, and the id of a user of the export.
PlaceholderIds == {StrangerId, <<>>, UserId(1)}

CallTransformUsers ==
    /\ pc = "call"
    /\ rule = "TransformUsers"
    /\ usersById' = TransformUsers(argB, argA)
    /\ pc' = "users"
    /\ UNCHANGED <<rule, argA, argB, ruleOut, slackExports, idx, result, err, channelPosts,
                   postIdx, timestamps, threads, newPosts, resultPosts>>

\* The post transform creates a placeholder user.
CallCreateIntermediateUser ==
    /\ pc \in {"users", "posts"}
    /\ rule = "TransformUsers"
    /\ \E userID \in PlaceholderIds :
           usersById' = CreateIntermediateUser(argB, usersById, userID)
    /\ pc' = "posts"
    /\ UNCHANGED <<rule, argA, argB, ruleOut, slackExports, idx, result, err, channelPosts,
                   postIdx, timestamps, threads, newPosts, resultPosts>>

TransformInit ==
    /\ slackExports = <<>>
    /\ idx = 0
    /\ result = Nil
    /\ err = "nil"
    /\ ruleOut = Nil
    /\ pc = "call"
    /\ channelPosts = <<>>
    /\ postIdx = 0
    /\ timestamps = {}
    /\ threads = EmptyMap
    /\ newPosts = <<>>
    /\ usersById = EmptyMap
    /\ resultPosts = <<>>
    /\ \/ rule = "SlackConvertTimeStamp" /\ argA \in TimeStamps /\ argB = Nil
       \/ rule = "SlackConvertTimeStampToMicroSeconds" /\ argA \in TimeStamps /\ argB = Nil
       \/ /\ rule = "TransformChannels"
          /\ argA \in RawChannelLists
          /\ argB \in TransformChannelsContexts
       \/ /\ rule = "TransformAllChannels"
          /\ argA \in ChannelExports
          /\ argB \in TransformChannelsContexts
       \/ /\ rule = "ApplyChannelOverrides"
          /\ argA \in ChannelTargets
          /\ argB \in {Transformer(channelOverrides, EmptyMap) :
                          channelOverrides \in OverrideTables(argA.Name, ChannelOverrideEntries)}
       \/ /\ rule = "ApplyUserOverrides"
          /\ argA \in UserTargets
          /\ argB \in {Transformer(EmptyMap, userOverrides) :
                          userOverrides \in OverrideTables(argA.Username, UserOverrideEntries)}
       \/ /\ rule = "TransformUsers"
          /\ argA \in RawUserLists
          /\ argB \in {Transformer(EmptyMap, userOverrides) :
                          userOverrides \in UserOverrideTables}

TransformNext ==
    \/ ApplySlackConvertTimeStamp
    \/ ApplySlackConvertTimeStampToMicroSeconds
    \/ CallTransformChannels
    \/ CallTransformAllChannels
    \/ CallApplyChannelOverrides
    \/ CallApplyUserOverrides
    \/ CallTransformUsers
    \/ CallCreateIntermediateUser

TransformSpec == TransformInit /\ [][TransformNext]_vars

-----------------------------------------------------------------------------
(* Timestamp conversion, as specified.                                     *)

\* A decimal number: digits, then possibly a point and further digits.
IsDecimal(ts) ==
    /\ ts # <<>>
    /\ IsDigit(ts[1])
    /\ \A n \in 1..Len(ts) : IsDigit(ts[n]) \/ ts[n] = "."
    /\ Cardinality({n \in 1..Len(ts) : ts[n] = "."}) <= 1

\* The place of the point; past the end when there is none.
PointOf(ts) == IF \E n \in 1..Len(ts) : ts[n] = "."
               THEN CHOOSE n \in 1..Len(ts) : ts[n] = "." ELSE Len(ts) + 1

FractionLength(ts) == IF PointOf(ts) > Len(ts) THEN 0 ELSE Len(ts) - PointOf(ts)

\* 10 to the power n.
RECURSIVE Power10(_)
Power10(n) == IF n = 0 THEN 1 ELSE 10 * Power10(n - 1)

\* The whole seconds, and the fraction in millionths, of a decimal number with
\* at most six fractional digits.
Seconds(ts) == Number(SubSeq(ts, 1, PointOf(ts) - 1))

Millionths(ts) == Number(SubSeq(ts, PointOf(ts) + 1, Len(ts))) * Power10(6 - FractionLength(ts))

\* C13: ToMilliseconds(s) is 1 when s is not a decimal number; otherwise, for
\* s with 0 to 6 fractional digits (a trailing point meaning zero fraction), it
\* is the seconds times 1000 rounded half up: the integer r with
\* value * 1000 - 1/2 < r <= value * 1000 + 1/2.
C13_MillisecondsRoundHalfUp ==
    pc = "returned" /\ rule = "SlackConvertTimeStamp" =>
        /\ ~IsDecimal(argA) => ruleOut = 1
        /\ IsDecimal(argA) /\ FractionLength(argA) <= 6 =>
              LET r == ruleOut - 1000 * Seconds(argA)
              IN  /\ Millionths(argA) - 500 < 1000 * r
                  /\ 1000 * r <= Millionths(argA) + 500

C13_Witness ==
    /\ pc = "returned"
    /\ rule = "SlackConvertTimeStamp"
    /\ argA = <<"1", "9", ".", "9", "9", "9", "5", "0", "0">>
    /\ ruleOut = 20000

\* C14: ToMicroseconds(s) is 1 when s is not a decimal number; otherwise, for
\* s with at most 6 fractional digits, it is exactly the whole seconds times
\* 10^6 plus the fractional digits right-padded to six digits, so the value of
\* the timestamp can be read back from it and two timestamps that differ in
\* value never get the same microseconds.
C14_MicrosecondsExact ==
    pc = "returned" /\ rule = "SlackConvertTimeStampToMicroSeconds" =>
        /\ ~IsDecimal(argA) => ruleOut = 1
        /\ IsDecimal(argA) /\ FractionLength(argA) <= 6 =>
              /\ ruleOut = 1000000 * Seconds(argA) + Millionths(argA)
              /\ ruleOut \div 1000000 = Seconds(argA)
              /\ ruleOut % 1000000 = Millionths(argA)

C14_Witness ==
    /\ pc = "returned"
    /\ rule = "SlackConvertTimeStampToMicroSeconds"
    /\ argA = <<"1", "9", ".", "0", "4", "5", "9", "5">>
    /\ ruleOut = 19045950


-----------------------------------------------------------------------------
(* Channel transform, as specified.                                        *)

\* TransformChannels has returned.
Transformed == pc = "returned" /\ rule = "TransformChannels"

\* A group channel with more valid members than a group channel may have.
IsLargeGroup(channel) ==
    /\ channel.Type = "G"
    /\ Len(filterValidMembers(channel.Members, UsersByIdDomain)) > ChannelGroupMaxUsers

\* A text that is a channel name as it stands.
IsPlainName(name) ==
    /\ Len(name) \in 2..ChannelNameMaxLength
    /\ isValidChannelNameCharacters(name)
    /\ name[1] \notin {"_", "-"}
    /\ name[Len(name)] \notin {"_", "-"}

\* C15: a group channel with more valid members than the ceiling of group
\* channels yields one channel of type private, named from the purpose text of
\* the group: it is the channel that a private channel with the purpose as its
\* name yields, its original name is the purpose, and its name is the purpose
\* itself when the purpose is a channel name as it stands and has no override.
C15_LargeGroupBecomesPrivateNamedByPurpose ==
    (Transformed /\ IsLargeGroup(argA[Len(argA)])) =>
        LET group == argA[Len(argA)]
            purpose == group.Purpose.Value
            yielded == ruleOut[Len(ruleOut)]
        IN  /\ ruleOut # <<>>
            /\ yielded.Type = "P"
            /\ <<yielded>> = TransformChannels(argB.t,
                                 <<[group EXCEPT !.Name = purpose, !.Type = "P"]>>,
                                 argB.teamInternalOnly)
            /\ purpose # <<>> => yielded.OriginalName = purpose
            /\ (IsPlainName(purpose) /\ purpose \notin DOMAIN argB.t.ChannelOverrides)
                   => yielded.Name = purpose

\* A group of nine valid members named "general" with the purpose "talk" has
\* become the private channel "talk".
C15_Witness ==
    /\ Transformed
    /\ Len(argA) = 1
    /\ argA[1].Type = "G"
    /\ argA[1].Name = <<"g", "e", "n", "e", "r", "a", "l">>
    /\ argA[1].Purpose.Value = <<"t", "a", "l", "k">>
    /\ Len(filterValidMembers(argA[1].Members, UsersByIdDomain)) = ChannelGroupMaxUsers + 1
    /\ Len(ruleOut) = 1
    /\ ruleOut[1].Type = "P"
    /\ ruleOut[1].Name = <<"t", "a", "l", "k">>


-----------------------------------------------------------------------------
(* Overrides, as specified.                                                *)

UserFields == {"Username", "FirstName", "LastName", "Position", "Email", "Password"}

ChannelFields == {"Name", "DisplayName", "Purpose", "Header", "Topic"}

\* The fields that the flags' descriptions say a single dash empties.
DashFields == {"FirstName", "LastName", "Position"} \cup ChannelFields

\* One of the two override functions has returned.
OverridesReturned == pc = "returned" /\ rule \in {"ApplyChannelOverrides", "ApplyUserOverrides"}

\* The table looked into, the key looked for and the fields an entry may set.
OverrideTable ==
    IF rule = "ApplyChannelOverrides" THEN argB.ChannelOverrides ELSE argB.UserOverrides

OverrideKey == IF rule = "ApplyChannelOverrides" THEN argA.Name ELSE argA.Username

OverrideFields == IF rule = "ApplyChannelOverrides" THEN ChannelFields ELSE UserFields

\* C19 as stated: an entry for the target replaces each field by the entry's
\* non-empty value, and a single dash empties the field, for every optional
\* field of a user and of a channel.
C19_DashClearsEveryField ==
    (OverridesReturned /\ OverrideKey \in DOMAIN OverrideTable) =>
        \A f \in DOMAIN argA :
            ruleOut.target[f] =
                IF f \notin OverrideFields \/ OverrideTable[OverrideKey][f] = <<>> THEN argA[f]
                ELSE IF OverrideTable[OverrideKey][f] = <<"-">> THEN <<>>
                ELSE OverrideTable[OverrideKey][f]

\* C19: an entry for the target replaces each field by the entry's non-empty
\* value; a single dash empties a user's first name, last name and position and
\* every optional field of a channel, while in a user's username, email and
\* password the dash is copied like any other value.
C19_DashClearsDocumentedFields ==
    (OverridesReturned /\ OverrideKey \in DOMAIN OverrideTable) =>
        \A f \in DOMAIN argA :
            ruleOut.target[f] =
                IF f \notin OverrideFields \/ OverrideTable[OverrideKey][f] = <<>> THEN argA[f]
                ELSE IF OverrideTable[OverrideKey][f] = <<"-">> /\ f \in DashFields THEN <<>>
                ELSE OverrideTable[OverrideKey][f]

\* A user's entry with a dash everywhere but a new last name has emptied the
\* first name and the position and made the username, email and password a dash.
C19_Witness ==
    /\ OverridesReturned
    /\ rule = "ApplyUserOverrides"
    /\ argA.FirstName = <<"F">>
    /\ OverrideKey \in DOMAIN OverrideTable
    /\ OverrideTable[OverrideKey] =
           [Username |-> <<"-">>, FirstName |-> <<"-">>, LastName |-> <<"n", "e", "w">>,
            Position |-> <<"-">>, Email |-> <<"-">>, Password |-> <<"-">>]
    /\ ruleOut.target.FirstName = <<>>
    /\ ruleOut.target.Position = <<>>
    /\ ruleOut.target.LastName = <<"n", "e", "w">>
    /\ ruleOut.target.Username = <<"-">>
    /\ ruleOut.target.Email = <<"-">>
    /\ ruleOut.target.Password = <<"-">>

\* C20 as stated: a target without an entry is left unchanged and a warning is
\* logged, also when the table is empty.
C20_NoEntryWarnsAlways ==
    (OverridesReturned /\ OverrideKey \notin DOMAIN OverrideTable) =>
        ruleOut.target = argA /\ ruleOut.warned

\* C20: a target without an entry is left unchanged; a warning is logged when
\* the table has entries, and none when the table is empty.
C20_NoEntryWarnsUnlessTableEmpty ==
    (OverridesReturned /\ OverrideKey \notin DOMAIN OverrideTable) =>
        /\ ruleOut.target = argA
        /\ ruleOut.warned <=> DOMAIN OverrideTable # {}

\* A channel whose table holds an entry for another channel only: unchanged,
\* with a warning.
C20_Witness ==
    /\ OverridesReturned
    /\ rule = "ApplyChannelOverrides"
    /\ DOMAIN OverrideTable # {}
    /\ OverrideKey \notin DOMAIN OverrideTable
    /\ ruleOut.target = argA
    /\ ruleOut.warned


-----------------------------------------------------------------------------
(* Thread assembly, as specified.                                          *)

\* The root posts, and the replies of a root post.
Roots == {threads[key] : key \in DOMAIN threads}

RepliesOf(root) == PointersOf(newPosts[root].Replies)

\* The post is among the root posts or among the replies of one.
InOutput(pointer) == pointer \in Roots \/ \E root \in Roots : pointer \in RepliesOf(root)

\* TransformPosts is done with the posts of a transformed channel.
PostsDone == rule = "TransformPosts" /\ pc = "done" /\ argB.channel # Nil

\* A raw post that names a thread root other than itself.
IsReply(post) == post.ThreadTS # <<>> /\ post.ThreadTS # post.TimeStamp

\* The raw posts of two pointers round to the same millisecond.
SameMillisecond(p, q) ==
    SlackConvertTimeStamp(channelPosts[p].TimeStamp)
        = SlackConvertTimeStamp(channelPosts[q].TimeStamp)

\* The root posts handed to thread assembly before the reply, under the
\* timestamp that the reply names.
RootsBefore(reply) ==
    {root \in DOMAIN newPosts :
        /\ root < reply
        /\ ~IsReply(channelPosts[root])
        /\ channelPosts[root].TimeStamp = channelPosts[reply].ThreadTS}

\* No two raw posts of the channel have the same timestamp string.
TimeStampsAreKeys ==
    \A p, q \in 1..Len(channelPosts) :
        p # q => channelPosts[p].TimeStamp # channelPosts[q].TimeStamp

\* C16 as stated: two supported posts of a channel that round to the same
\* millisecond are both in the output, with different creation timestamps, a
\* root among the roots and a reply among the replies of the root that its
\* thread-root timestamp names.
C16_CollidingPostsBothAppear ==
    PostsDone =>
        \A p, q \in 1..Len(channelPosts) :
            (/\ p # q
             /\ postCase(channelPosts[p]) # "default"
             /\ postCase(channelPosts[q]) # "default"
             /\ SameMillisecond(p, q)) =>
                /\ {p, q} \subseteq DOMAIN newPosts
                /\ newPosts[p].CreateAt # newPosts[q].CreateAt
                /\ \A x \in {p, q} :
                       IF IsReply(channelPosts[x])
                       THEN \E root \in Roots :
                                /\ channelPosts[root].TimeStamp = channelPosts[x].ThreadTS
                                /\ x \in RepliesOf(root)
                       ELSE x \in Roots

\* C16: two posts of a channel that round to the same millisecond and are both
\* handed to thread assembly get different creation timestamps; when the
\* timestamp strings of the channel are all different, a root is among the
\* roots of the output, and a reply is among the replies of the root that its
\* thread-root timestamp names if that root was handed to thread assembly
\* before it, and is nowhere in the output otherwise.
C16_CollidingPostsKeepLinkage ==
    PostsDone =>
        \A p, q \in DOMAIN newPosts :
            (p # q /\ SameMillisecond(p, q)) =>
                /\ newPosts[p].CreateAt # newPosts[q].CreateAt
                /\ TimeStampsAreKeys =>
                       \A x \in {p, q} :
                           IF ~IsReply(channelPosts[x]) THEN x \in Roots
                           ELSE IF RootsBefore(x) = {} THEN ~InOutput(x)
                           ELSE \E root \in RootsBefore(x) :
                                    root \in Roots /\ x \in RepliesOf(root)

\* The root of 1.0000 and its reply of 1.0003 round to 1000: the root is in the
\* output at 1000, the reply among its replies at 1001.
C16_Witness ==
    /\ PostsDone
    /\ TimeStampsAreKeys
    /\ \E p, q \in DOMAIN newPosts :
           /\ channelPosts[p].TimeStamp = <<"1", ".", "0", "0", "0", "0">>
           /\ channelPosts[q].TimeStamp = <<"1", ".", "0", "0", "0", "3">>
           /\ channelPosts[q].ThreadTS = <<"1", ".", "0", "0", "0", "0">>
           /\ SameMillisecond(p, q)
           /\ newPosts[p].CreateAt = 1000
           /\ newPosts[q].CreateAt = 1001
           /\ p \in PointersOf(resultPosts)
           /\ q \in RepliesOf(p)

\* C17: at every point of the transform of a channel's posts, the posts that
\* thread assembly was given, roots and replies, have creation timestamps that
\* differ from one another, and these are the timestamps recorded as taken.
C17_CreationTimestampsDistinct ==
    rule = "TransformPosts" =>
        /\ \A p, q \in DOMAIN newPosts : p # q => newPosts[p].CreateAt # newPosts[q].CreateAt
        /\ timestamps = {newPosts[p].CreateAt : p \in DOMAIN newPosts}

\* Three posts of the millisecond 1000 have been given to thread assembly, a
\* root and two replies: they are at 1000, 1001 and 1002.
C17_Witness ==
    /\ rule = "TransformPosts"
    /\ Cardinality(DOMAIN newPosts) = 3
    /\ \A p, q \in DOMAIN newPosts : SameMillisecond(p, q)
    /\ \E p \in DOMAIN newPosts : Cardinality(RepliesOf(p)) = 2
    /\ {newPosts[p].CreateAt : p \in DOMAIN newPosts} = {1000, 1001, 1002}

\* C18: among the posts of the output, no post is a root twice, a reply is not
\* a root, is in the reply list of one root and once in it, and has no replies
\* itself; what is appended to the result is the roots, each once.
C18_RootsAndRepliesOfDepthOne ==
    rule = "TransformPosts" =>
        /\ \A key1, key2 \in DOMAIN threads : threads[key1] = threads[key2] => key1 = key2
        /\ \A root \in Roots :
               \A n \in 1..Len(newPosts[root].Replies) :
                   LET reply == newPosts[root].Replies[n]
                   IN  /\ reply \notin Roots
                       /\ newPosts[reply].Replies = <<>>
                       /\ \A other \in Roots :
                              \A m \in 1..Len(newPosts[other].Replies) :
                                  newPosts[other].Replies[m] = reply => (other = root /\ m = n)
        /\ pc = "done" =>
               /\ PointersOf(resultPosts) = Roots
               /\ Len(resultPosts) = Cardinality(Roots)

\* The output holds two roots, one of them with a reply.
C18_Witness ==
    /\ PostsDone
    /\ Len(resultPosts) = 2
    /\ \E root \in Roots : Len(newPosts[root].Replies) = 1
    /\ \E root \in Roots : newPosts[root].Replies = <<>>


-----------------------------------------------------------------------------
(* Overrides in the channel transform, as specified.                       *)

\* TransformChannels was given one channel that entered as a direct channel or
\* as a group channel that is not demoted, and has kept it.
KeptDirectOrGroup ==
    /\ Transformed
    /\ Len(argA) = 1
    /\ argA[1].Type \in {"D", "G"}
    /\ ~IsLargeGroup(argA[1])
    /\ Len(ruleOut) = 1

\* What TransformChannels yields when there are no channel overrides.
WithoutOverrides ==
    TransformChannels([argB.t EXCEPT !.ChannelOverrides = EmptyMap], argA,
                      argB.teamInternalOnly)

\* C24 as stated: a channel that enters as direct or group, and is not a
\* demoted group, is what it would be without channel overrides, in either
\* import mode.
C24_NoOverrideForDirectOrGroup == KeptDirectOrGroup => ruleOut = WithoutOverrides

\* C24: a channel that enters as direct or group, and is not a demoted group,
\* is what it would be without channel overrides when the import is not
\* team-internal; in a team-internal import it has been made private before
\* the overrides, and is, but for its original name, what a private channel of
\* its generated name yields, overrides included.
C24_OverridesByTypeAfterNaming ==
    KeptDirectOrGroup =>
        IF ~argB.teamInternalOnly THEN ruleOut = WithoutOverrides
        ELSE LET asPrivate ==
                     [argA[1] EXCEPT
                         !.Name = internalName(argB.t, argA[1],
                                      filterValidMembers(argA[1].Members, UsersByIdDomain)),
                         !.Type = "P"]
             IN  /\ ruleOut[1].Type = "P"
                 /\ [ruleOut[1] EXCEPT !.OriginalName = <<>>]
                        = [TransformChannels(argB.t, <<asPrivate>>, TRUE)[1]
                              EXCEPT !.OriginalName = <<>>]

\* In a team-internal import the group of the users 1 and 2 has been renamed by
\* the override of its generated name; in the other import a group named
\* "general" is left alone by the override of "general".
C24_Witness ==
    /\ KeptDirectOrGroup
    /\ argA[1].Type = "G"
    /\ \/ /\ argB.teamInternalOnly
          /\ argA[1].Members = MembersOf(2, FALSE)
          /\ ruleOut[1].Name = <<"r", "e", "n", "a", "m", "e", "d">>
          /\ ruleOut # WithoutOverrides
       \/ /\ ~argB.teamInternalOnly
          /\ argA[1].Name = <<"g", "e", "n", "e", "r", "a", "l">>
          /\ <<"g", "e", "n", "e", "r", "a", "l">> \in DOMAIN argB.t.ChannelOverrides
          /\ ruleOut[1].Name = <<"g", "e", "n", "e", "r", "a", "l">>


-----------------------------------------------------------------------------
(* The channel lists, as specified.                                        *)

\* Every channel of the list has the type.
AllOfType(channels, type) == \A n \in 1..Len(channels) : channels[n].Type = type

\* C30: after TransformAllChannels every channel of the private list is
\* private, every channel of the group list a group channel, every channel of
\* the direct list a direct channel and every channel of the public list
\* public, in both import modes and whatever members are valid.
C30_ListsHoldTheirTypes ==
    (pc = "returned" /\ rule = "TransformAllChannels") =>
        /\ AllOfType(ruleOut.PublicChannels, "O")
        /\ AllOfType(ruleOut.PrivateChannels, "P")
        /\ AllOfType(ruleOut.GroupChannels, "G")
        /\ AllOfType(ruleOut.DirectChannels, "D")


-----------------------------------------------------------------------------
(* Authors, as specified.                                                  *)

\* The id of the author of a raw post: the user of the comment for a file
\* comment, the bot id (the user when there is none) for a bot message, the
\* user otherwise; the empty text when the post has none.
AuthorId(post) ==
    IF postCase(post) = "file comment"
    THEN IF post.Comment = Nil THEN <<>> ELSE post.Comment.User
    ELSE IF postCase(post) = "bot" /\ post.BotId # <<>> THEN post.BotId
    ELSE post.User

\* The loop is at a supported post whose author is not in the user index.
AtPostOfMissingAuthor ==
    /\ rule = "TransformPosts"
    /\ pc = "loop"
    /\ postIdx <= Len(channelPosts)
    /\ postCase(channelPosts[postIdx]) # "default"
    /\ AuthorId(channelPosts[postIdx]) # <<>>
    /\ AuthorId(channelPosts[postIdx]) \notin DOMAIN usersById

\* C22: the step of the loop at a supported post whose author id is not in the
\* user index puts the placeholder user under exactly that id, attributes the
\* post it hands to thread assembly to that placeholder, and leaves every user
\* that was in the index as it was.
C22_PlaceholderUnderMissingId ==
    [][AtPostOfMissingAuthor =>
          LET authorId == AuthorId(channelPosts[postIdx])
          IN  /\ authorId \in DOMAIN usersById'
              /\ usersById'[authorId]
                     = CreateIntermediateUser(argB, usersById, authorId)[authorId]
              /\ postIdx \in DOMAIN newPosts'
                     => newPosts'[postIdx].User = usersById'[authorId].Username
              /\ \A id \in DOMAIN usersById : usersById'[id] = usersById[id]]_vars


-----------------------------------------------------------------------------
(* The transform of a channel's posts as a whole, for the claims that       *)
(* compare the transforms of two lists of posts.                           *)

\* Where the loop starts.
StartOfPosts ==
    [usersById |-> UsersByIdDomain, timestamps |-> {}, threads |-> EmptyMap,
     newPosts |-> EmptyMap]

\* What the loop leaves of the sorted posts.
AfterPosts(posts) == transformPosts(argB, StartOfPosts, posts, 1)

\* The place of each raw post that was handed to thread assembly: a root of the
\* output, a reply of the root of the output with the given timestamp string,
\* or neither.
PlacesOf(posts, state) ==
    {[post |-> posts[p],
      place |-> IF \E key \in DOMAIN state.threads : state.threads[key] = p THEN "root"
                ELSE IF \E key \in DOMAIN state.threads :
                            p \in PointersOf(state.newPosts[state.threads[key]].Replies)
                THEN "reply" ELSE "dropped",
      root |-> {key \in DOMAIN state.threads :
                    p \in PointersOf(state.newPosts[state.threads[key]].Replies)}] :
        p \in DOMAIN state.newPosts}

\* The same with the creation timestamp that each post was given.
OutcomeOf(posts, state) ==
    {[placed |-> placed,
      createAt |-> state.newPosts[CHOOSE p \in DOMAIN state.newPosts :
                                      posts[p] = placed.post].CreateAt] :
        placed \in PlacesOf(posts, state)}

\* The loop as a function leaves what the steps of the loop leave.
LoopIsFunction ==
    (rule = "TransformPosts" /\ pc = "done" /\ argB.channel # Nil) =>
        AfterPosts(channelPosts)
            = [usersById |-> usersById, timestamps |-> timestamps, threads |-> threads,
               newPosts |-> newPosts]


-----------------------------------------------------------------------------
(* C25: replies whose root is not there.                                    *)

\* The posts without the one at the pointer.
Without(posts, pointer) ==
    SubSeq(posts, 1, pointer - 1) \o SubSeq(posts, pointer + 1, Len(posts))

\* What the loop has left of the posts of the channel.
PostsState ==
    [usersById |-> usersById, timestamps |-> timestamps, threads |-> threads,
     newPosts |-> newPosts]

\* The reply at the pointer was handed to thread assembly when no root was
\* under the timestamp that it names.
IsRootlessReply(pointer) ==
    /\ pointer \in DOMAIN newPosts
    /\ IsReply(channelPosts[pointer])
    /\ RootsBefore(pointer) = {}

\* The reply is among the replies of a root exactly when a root under its
\* thread-root timestamp was inserted before it; otherwise it is no root and
\* in no reply list.
AppendedIffRootBefore(pointer) ==
    /\ (\E root \in DOMAIN newPosts : pointer \in RepliesOf(root))
           <=> RootsBefore(pointer) # {}
    /\ RootsBefore(pointer) = {} => ~InOutput(pointer)

\* C25 as stated: a reply is appended to a root's replies exactly when a root
\* under its thread-root timestamp was inserted earlier in the sorted order;
\* otherwise it is nowhere in the output, and every other post of the channel
\* has the place and the creation timestamp that it has without the reply.
C25_DroppedReplyLeavesOthersUnaffected ==
    PostsDone =>
        \A pointer \in DOMAIN newPosts :
            IsReply(channelPosts[pointer]) =>
                /\ AppendedIffRootBefore(pointer)
                /\ IsRootlessReply(pointer) =>
                       {outcome \in OutcomeOf(channelPosts, PostsState) :
                            outcome.placed.post # channelPosts[pointer]}
                           = OutcomeOf(Without(channelPosts, pointer),
                                       AfterPosts(Without(channelPosts, pointer)))

\* C25: a reply is appended to a root's replies exactly when a root under its
\* thread-root timestamp was inserted earlier in the sorted order; otherwise
\* it is nowhere in the output, and every other post of the channel has the
\* place among the roots and replies that it has without the reply, with a
\* creation timestamp that is no earlier, since the timestamp of the dropped
\* reply stays taken.
C25_DroppedReplyLeavesOthersInPlace ==
    PostsDone =>
        \A pointer \in DOMAIN newPosts :
            IsReply(channelPosts[pointer]) =>
                /\ AppendedIffRootBefore(pointer)
                /\ IsRootlessReply(pointer) =>
                       LET without == Without(channelPosts, pointer)
                           alone == OutcomeOf(without, AfterPosts(without))
                           here == {outcome \in OutcomeOf(channelPosts, PostsState) :
                                        outcome.placed.post # channelPosts[pointer]}
                       IN  /\ {outcome.placed : outcome \in here}
                               = {outcome.placed : outcome \in alone}
                           /\ \A a \in here, b \in alone :
                                  a.placed = b.placed => a.createAt >= b.createAt

\* A reply without its root was dropped and a later post of its millisecond
\* was placed.
C25_Witness ==
    /\ PostsDone
    /\ \E pointer, other \in DOMAIN newPosts :
           /\ IsRootlessReply(pointer)
           /\ pointer < other
           /\ InOutput(other)
           /\ SameMillisecond(pointer, other)


-----------------------------------------------------------------------------
(* C27: the order of insertion and of the creation timestamps.              *)

\* The creation timestamps given to the posts inserted before the pointer.
AssignedBefore(pointer) ==
    {newPosts[earlier].CreateAt : earlier \in {q \in DOMAIN newPosts : q < pointer}}

\* The post at the pointer has the smallest creation timestamp from its
\* millisecond on that no earlier post was given.
IsSmallestFree(pointer) ==
    LET createAt == newPosts[pointer].CreateAt
        from == SlackConvertTimeStamp(channelPosts[pointer].TimeStamp)
    IN  /\ createAt >= from
        /\ createAt \notin AssignedBefore(pointer)
        /\ \A earlier \in from..(createAt - 1) : earlier \in AssignedBefore(pointer)

-----------------------------------------------------------------------------
(* C26: the creation time of reactions.                                     *)

\* The creation times of the reactions of the post at the pointer.
ReactionTimes(pointer) ==
    IF newPosts[pointer].Reactions = Nil THEN {}
    ELSE {newPosts[pointer].Reactions.elems[n].CreateAt :
              n \in 1..Len(newPosts[pointer].Reactions.elems)}

\* C26: the creation time of every reaction of a post in the output is
\* greater than the creation timestamp that the post has after the collisions
\* are resolved, and is that timestamp plus one.
C26_ReactionsAfterFinalCreateAt ==
    PostsDone =>
        \A pointer \in DOMAIN newPosts :
            InOutput(pointer) =>
                \A createAt \in ReactionTimes(pointer) :
                    /\ createAt > newPosts[pointer].CreateAt
                    /\ createAt = newPosts[pointer].CreateAt + 1


-----------------------------------------------------------------------------
(* C28: the order of the posts in the input.                                *)

\* C28: whatever the order of the channel's posts in the input, and so
\* whatever order the sort leaves posts of equal microseconds in, the posts
\* are roots, replies of the same roots or dropped alike, with the same
\* creation timestamps.
C28_OutcomeIndependentOfInputOrder ==
    PostsDone =>
        \A sorted \in SortedByMicroSeconds(argA) :
            OutcomeOf(sorted, AfterPosts(sorted)) = OutcomeOf(channelPosts, PostsState)


-----------------------------------------------------------------------------
(* C21: the email of the users of the index.                                *)

\* The raw user is the last of the export to be stored under its id.
StoredUser(n) ==
    LET key(user) == IF user.IsBot THEN user.Profile.BotID ELSE user.Id
    IN  \A later \in (n + 1)..Len(argA) : key(argA[later]) # key(argA[n])

\* The raw user has an override entry with the given field set.
HasOverride(user, field) ==
    /\ user.Username \in DOMAIN argB.UserOverrides
    /\ argB.UserOverrides[user.Username][field] # <<>>

\* C21: every user of the index, the placeholders included, has an email
\* after the user transform and after the post transform has added its
\* placeholders; the user transform gives a raw user with no email and no
\* email override the email <username>@example.com, of the username that it
\* has after the overrides.
C21_EveryUserHasEmail ==
    (rule = "TransformUsers" /\ pc \in {"users", "posts"}) =>
        /\ \A id \in DOMAIN usersById : usersById[id].Email # <<>>
        /\ pc = "users" =>
               \A n \in 1..Len(argA) :
                   (/\ StoredUser(n)
                    /\ argA[n].Profile.Email = <<>>
                    /\ ~HasOverride(argA[n], "Email")) =>
                       LET id == IF argA[n].IsBot THEN argA[n].Profile.BotID ELSE argA[n].Id
                           username == IF HasOverride(argA[n], "Username")
                                       THEN argB.UserOverrides[argA[n].Username].Username
                                       ELSE argA[n].Username
                       IN  /\ id \in DOMAIN usersById
                           /\ usersById[id].Username = username
                           /\ usersById[id].Email = username \o ExampleDomain

\* A user without email was given the email of its overridden username, and
\* the post transform has added a placeholder.
C21_Witness ==
    /\ rule = "TransformUsers"
    /\ pc = "posts"
    /\ \E id \in DOMAIN usersById :
           usersById[id].Email = <<"n", "e", "w">> \o ExampleDomain
    /\ StrangerId \in DOMAIN usersById
    /\ usersById[StrangerId].Email = StrangerId \o <<"@", "l", "o", "c", "a", "l">>


-----------------------------------------------------------------------------
(* C23: properties over the size limit.                                     *)

PostsReturned == rule = "TransformPosts" /\ pc = "returned" /\ argB.channel # Nil

\* The plain post at the pointer has an author, and its properties are over
\* the size limit when the post is made.
OversizeWhenMade(pointer) ==
    /\ postCase(channelPosts[pointer]) = "plain"
    /\ channelPosts[pointer].User # <<>>
    /\ GetPropsForPost(channelPosts[pointer], Len(channelPosts[pointer].Attachments) > 0,
                       argB.addOriginal).runes > PostPropsMaxRunes

\* The post at the pointer has replies, and its properties with the archive of
\* the replies' originals were over the size limit.
OversizeWhenCompacted(pointer) ==
    /\ argB.addOriginal
    /\ pointer \in Roots
    /\ Len(newPosts[pointer].Replies) > 0
    /\ newPosts[pointer].Props = Nil \/ ArchiveKey \notin DOMAIN newPosts[pointer].Props

\* The policy at the check of a post's properties when the post is made.
PolicyWhenMade ==
    \A pointer \in 1..Len(channelPosts) :
        OversizeWhenMade(pointer) =>
            IF argB.discardInvalidProps THEN pointer \notin DOMAIN newPosts
            ELSE pointer \in DOMAIN newPosts /\ newPosts[pointer].Props = Nil

\* The same policy at the compaction of the replies' originals.
PolicyWhenCompacted ==
    \A pointer \in DOMAIN newPosts :
        OversizeWhenCompacted(pointer) =>
            IF argB.discardInvalidProps THEN pointer \notin PointersOf(resultPosts)
            ELSE pointer \in PointersOf(resultPosts)

\* C23: properties over the size limit are treated alike when a post is made
\* and when the originals of its replies are archived: with the option to
\* discard, the post is not in the output; without it, the post is kept and
\* the properties over the limit are left off.
C23_SamePolicyAtBothChecks ==
    PostsReturned => PolicyWhenMade /\ PolicyWhenCompacted


-----------------------------------------------------------------------------
(* C29: the order of the snapshots.                                         *)

\* The snapshots in every order.
Reordered(exports) ==
    {[n \in 1..Len(exports) |-> exports[f[n]]] :
        f \in {g \in [1..Len(exports) -> 1..Len(exports)] :
                  \A i, j \in 1..Len(exports) : i # j => g[i] # g[j]}}

\* The ids of a list of channels or users.
IdsOf(list) == {list[n].Id : n \in 1..Len(list)}

\* The identity keys of each collection of a snapshot.
IdentityKeys(export) ==
    [Channels |-> IdsOf(export.Channels),
     PublicChannels |-> IdsOf(export.PublicChannels),
     PrivateChannels |-> IdsOf(export.PrivateChannels),
     GroupChannels |-> IdsOf(export.GroupChannels),
     DirectChannels |-> IdsOf(export.DirectChannels),
     Users |-> IdsOf(export.Users),
     Posts |-> [name \in DOMAIN export.Posts |->
                   {export.Posts[name][n].TimeStamp : n \in 1..Len(export.Posts[name])}],
     Uploads |-> DOMAIN export.Uploads]

\* C29: the merge of the snapshots in any other order succeeds exactly when
\* this merge has succeeded, and then its result has the same identity keys
\* in every collection.
C29_MergeIndependentOfOrder ==
    (pc = "done" /\ rule = "none") =>
        \A exports \in Reordered(slackExports) :
            \A out \in MergeSlackExports(exports) :
                /\ out.err = "nil" <=> err = "nil"
                /\ err = "nil" => IdentityKeys(out.val) = IdentityKeys(result)

\* Three snapshots were merged, the second adding keys to the first and the
\* third filling in what the first leaves empty.
C29_Witness ==
    /\ pc = "done"
    /\ rule = "none"
    /\ err = "nil"
    /\ Len(slackExports) = 3
    /\ slackExports[1] # slackExports[2]
    /\ IdentityKeys(slackExports[1]) # IdentityKeys(result)
    /\ IdentityKeys(slackExports[2]) # IdentityKeys(result)

=============================================================================
